---------------------------- MODULE Spec2Model ----------------------------
(***************************************************************************)
(* Verification model of the company-research backend.                     *)
(*                                                                         *)
(* Part I   QueryRouter + CacheManager   (orchestrator/query_router.py,    *)
(*          orchestrator/cache_manager.py)        specification SpecRouter *)
(* Part II  AgentController + SessionMemory (agent/agent_controller.py,    *)
(*          agent/memory.py)                       specification SpecAgent *)
(*                                                                         *)
(* Concurrency convention.  A coroutine runs without interruption between  *)
(* two suspension points.  An `await` on the asynchronous interface of a   *)
(* separate collaborator (CacheManager.get/set, the worker thread used for *)
(* plan generation) is a suspension point; an `await` on a private         *)
(* coroutine of the same class is resolved by that coroutine's body.       *)
(***************************************************************************)
EXTENDS Integers, Sequences, FiniteSets, TLC

(***************************************************************************)
(* Bounds of the model.                                                    *)
(***************************************************************************)
MaxCalls == 2          \* route_query invocations in one behaviour
MaxTime  == 4          \* clock values 0..MaxTime (hours)
MaxMarks == 2          \* mark_job_complete invocations in one behaviour
MaxTurns == 2          \* process_message invocations on the session
MaxWeb   == 2          \* distinct usable web results of one _gather_data
MaxControllers == 2    \* AgentController instances (messages) of the breaker model
MaxBatches == 3        \* LLM batches of one _process_with_llm call
MaxClauses == 3        \* clauses of one multi-command update message
CacheMaxSize == 10     \* CacheManager.max_size, scaled down from 10000
MaxSets == 2           \* CacheManager.set calls on the nearly full cache
MaxHandlers == 2       \* plan requests served at the same time
MaxSaves == 2          \* writes of the stored plan
MaxChunks == 3         \* chunks given to the conflict detector
MaxResults == 2        \* results of one SERP
MaxScriptHead == 2     \* API answers chosen one by one before they repeat

(***************************************************************************)
(* Program constants.                                                      *)
(***************************************************************************)
SerpCacheTtlHours == 3     \* os.getenv("SERP_CACHE_TTL_HOURS", "3")
DefaultMaxAgeHours == 24   \* cleanup_old_jobs(max_age_hours=24)
MaxQueryLen == 1000        \* len(query) > 1000 is rejected
LlmFailureThreshold == 3   \* WebSearchTool.llm_failure_threshold
SearchesPerGather == 3     \* search_queries[:3] in _gather_data
GenerateMaxRetries == 3    \* GeminiEngine.generate(max_retries=3)
SectionAttempts == 2       \* for attempt in range(2) of the section generators
SectionMaxRetries == 2     \* _generate_section_with_retry(max_retries=2)
StopAfterAttempt == 3      \* @retry(stop=stop_after_attempt(3)) of _search_with_serper
EvictDivisor == 10         \* _evict_oldest removes len(self.cache) // 10 entries
NotCached == 0             \* created_at of a key that is not in the cache
HeadcountPercent == 15     \* headcounts differ significantly: diff_percent > 15
RevenuePercent == 10       \* revenues differ significantly: diff_percent > 10
FoundedYears == 2          \* founding years differ significantly: more than 2 apart
DefaultConfidence == 8     \* "confidence": 0.8 of a result without analysis, in tenths

(***************************************************************************)
(* Part I.  QueryRouter                                                    *)
(***************************************************************************)
VARIABLES
    active_jobs,    \* QueryRouter.active_jobs : hash -> job_info (or absent)
    cache,          \* CacheManager.cache : "serp:"+hash -> entry (or absent)
    now,            \* datetime.utcnow(), in hours
    next_job,       \* supply of fresh uuid4 job ids
    rcall,          \* per route_query invocation: position, locals, return value
    set_tasks,      \* event-loop queue of scheduled cache_manager.set coroutines
    overlap,        \* history: pairs of invocations that were in flight together
    last_done,      \* history: result and time of the latest effective mark_job_complete, per hash
    marks           \* number of mark_job_complete invocations so far

routerVars == <<active_jobs, cache, now, next_job, rcall, set_tasks,
                overlap, last_done, marks>>

VARIABLES
    company_name,   \* session['company_name']   ("none" for None)
    account_plan,   \* session['account_plan']   (NoPlan for None)
    research_data,  \* session['research_data']
    conflicts,      \* session['conflicts']
    messages,       \* session['messages'], the window of it the controller reads
    agent_state,    \* session['agent_state']
    vector_store,   \* uploaded documents held by the vector store
    turn,           \* per process_message invocation: position and locals while in flight
    last_turn,      \* history: what the latest finished turn did and returned
    last_update,    \* history: plan before/after the latest single-section update, and whether its regeneration failed
    conflict_pending \* history: a conflict question is waiting for the user's reply

agentVars == <<company_name, account_plan, research_data, conflicts, messages,
               agent_state, vector_store, turn, last_turn, last_update,
               conflict_pending>>

VARIABLES
    llm_failure_count,  \* WebSearchTool.llm_failure_count of the current controller
    llm_disabled,       \* WebSearchTool.llm_disabled of the current controller
    controllers,        \* AgentController instances created for the session so far
    searches,           \* search_company calls made by the current controller
    last_results,       \* result list of the latest _process_with_llm call
    tripped,            \* history: the breaker has tripped in this session
    llm_after_trip      \* history: enrichment LLM calls made after the breaker tripped

breakerVars == <<llm_failure_count, llm_disabled, controllers, searches,
                 last_results, tripped, llm_after_trip>>

VARIABLES
    \* ---------------- _update_section_workflow on a multi-command message
    commands,           \* the clauses of the message, in order
    operations,         \* the (type, key) list the parser built
    plan_before,        \* session['account_plan'] when the turn starts
    plan_after,         \* the plan handed to set_account_plan
    upc                 \* "ready" before the turn, "done" after it

updateVars == <<commands, operations, plan_before, plan_after, upc>>

VARIABLES
    \* ---------------- calls of the LLM
    script,             \* what the API answers to the successive calls
    run                 \* the function that ran, its calls, sleeps and result

llmVars == <<script, run>>

VARIABLES
    serper_api_key,  \* WebSearchTool.serper_api_key is set
    http,            \* what the Serper API answers to the successive POSTs
    serp,            \* the organic results of a SERP that arrives
    llm_on,          \* llm_engine is there and llm_disabled is False
    searched         \* the search made: attempts, waits, results, stored
searchVars == <<serper_api_key, http, serp, llm_on, searched>>

VARIABLES
    sources,         \* the chunks given to detect_conflicts
    detection        \* the detection made: the conflicts returned
conflictVars == <<sources, detection>>

\* the parts checked on their own inputs
VARIABLES
    entries,         \* CacheManager.cache: created_at of every key, 0 when absent
    clock,           \* datetime.utcnow() of the next set
    sets,            \* sets made
    last_set         \* the last set: its key and the cache before it
cacheVars == <<entries, clock, sets, last_set>>

\* the stored plan and the requests being served (api/plans.py)
VARIABLES
    stored_plan,   \* planJSON of the stored document, by section key
    plan_versions,  \* the number of entries of its versions
    handlers,       \* the requests in flight, with the copy each has read
    saves,          \* the writes made
    last_save       \* the last write: its section, its content, planJSON before it
plansVars == <<stored_plan, plan_versions, handlers, saves, last_save>>

libVars == <<updateVars, llmVars, searchVars, conflictVars, cacheVars, plansVars>>
\* everything but the variables of one part
exceptUpdate == <<routerVars, agentVars, breakerVars, llmVars, searchVars, conflictVars, cacheVars, plansVars>>
exceptLlm == <<routerVars, agentVars, breakerVars, updateVars, searchVars, conflictVars, cacheVars, plansVars>>
exceptSearch == <<routerVars, agentVars, breakerVars, updateVars, llmVars, conflictVars, cacheVars, plansVars>>
exceptConflict == <<routerVars, agentVars, breakerVars, updateVars, llmVars, searchVars, cacheVars, plansVars>>
exceptCache == <<routerVars, agentVars, breakerVars, updateVars, llmVars, searchVars, conflictVars, plansVars>>
exceptPlans == <<routerVars, agentVars, breakerVars, updateVars, llmVars, searchVars, conflictVars, cacheVars>>

vars == <<routerVars, agentVars, breakerVars, libVars>>

Calls == 1..MaxCalls
Times == 0..MaxTime

\* The raw inputs a caller may pass.  Length is carried beside the text so
\* that the 1000-character limit is decided by the code's comparison.
RawQueries ==
    { [text |-> "Research Acme",   len |-> 13],
      [text |-> " research acme ", len |-> 15],
      [text |-> "",                len |-> 0],
      [text |-> "   ",             len |-> 3],
      [text |-> "<script>x",       len |-> 9],
      [text |-> "long",            len |-> 1001] }
UserIds == {"u1", "u2"}
Results == {"r1", "r2", "empty"}     \* "empty" stands for a falsy result ({})

\* query.strip().lower()
StripLower(text) ==
    CASE text = "Research Acme"   -> "research acme"
      [] text = " research acme " -> "research acme"
      [] text = "   "             -> ""
      [] OTHER                    -> text

\* any(pattern in query.lower() for pattern in suspicious_patterns)
HasSuspiciousPattern(text) == text = "<script>x"

\* QueryRouter._validate_query
ValidateQuery(q) ==
    IF q.text = "" \/ StripLower(q.text) = "" THEN FALSE
    ELSE IF q.len > MaxQueryLen THEN FALSE
    ELSE IF HasSuspiciousPattern(q.text) THEN FALSE
    ELSE TRUE

\* QueryRouter._generate_query_hash with company_name = None:
\* sha256(query.strip().lower() + ":" + user_id); the digest is modelled by
\* its preimage, which is what decides equality of two hashes.
GenerateQueryHash(q, u) == <<StripLower(q.text), u>>

Hashes == { GenerateQueryHash(q, u) : q \in {r \in RawQueries : ValidateQuery(r)}, u \in UserIds }

NoJob   == [present |-> FALSE, job_id |-> 0, status |-> "none", completed_at |-> 0, result |-> "none"]
NoEntry == [present |-> FALSE, value |-> "none", expires_at |-> 0, created_at |-> 0]
NoRet   == [valid |-> FALSE, cached |-> FALSE, duplicate |-> FALSE, job_id |-> 0, result |-> "none"]
NoDone  == [done |-> FALSE, result |-> "none", at |-> 0]
IdleCall == [pc |-> "idle", hash |-> <<>>, ret |-> NoRet, fresh |-> FALSE, began |-> 0, seen |-> NoDone]

\* bool(value): a cached {} is falsy in `if cached_result:`
Truthy(v) == v \notin {"none", "empty"}

\* `if query_hash in self.active_jobs`  (route_query step 3)
IsActiveJob(h) == active_jobs[h].present

\* CacheManager.get: the entry's value unless absent or expired
CacheExpired(e) == now > e.expires_at
CacheGetValue(h) ==
    IF ~cache[h].present THEN "none"
    ELSE IF CacheExpired(cache[h]) THEN "none"
    ELSE cache[h].value

\* CacheManager.get deletes an expired entry it meets
CacheAfterGet(h) ==
    IF cache[h].present /\ CacheExpired(cache[h])
    THEN [cache EXCEPT ![h] = NoEntry]
    ELSE cache

InitRouter ==
    /\ active_jobs = [h \in Hashes |-> NoJob]
    /\ cache = [h \in Hashes |-> NoEntry]
    /\ now = 0
    /\ next_job = 1
    /\ rcall = [c \in Calls |-> IdleCall]
    /\ set_tasks = <<>>
    /\ overlap = {}
    /\ last_done = [h \in Hashes |-> NoDone]
    /\ marks = 0

\* route_query, steps 1-3 and the call of cache_manager.get (lines 57-95):
\* validation, hashing, the duplicate check, then suspension on the cache.
RouteBegin(c, q, u) ==
    /\ rcall[c].pc = "idle"
    /\ \A d \in Calls : d < c => rcall[d].pc # "idle"
    /\ IF ~ValidateQuery(q)
       THEN /\ rcall' = [rcall EXCEPT ![c] = [@ EXCEPT !.pc = "done", !.ret = NoRet]]
            /\ UNCHANGED overlap
       ELSE LET h == GenerateQueryHash(q, u) IN
            IF IsActiveJob(h)
            THEN /\ rcall' = [rcall EXCEPT ![c] =
                        [@ EXCEPT !.pc = "done", !.hash = h, !.began = now, !.seen = last_done[h],
                                  !.ret = [valid |-> TRUE, cached |-> FALSE, duplicate |-> TRUE,
                                           job_id |-> active_jobs[h].job_id, result |-> "none"]]]
                 /\ UNCHANGED overlap
            ELSE /\ rcall' = [rcall EXCEPT ![c] =
                        [@ EXCEPT !.pc = "await_cache", !.hash = h, !.began = now, !.seen = last_done[h],
                                  !.fresh = ~cache[h].present]]
                 /\ overlap' = overlap \cup
                        { {c, d} : d \in {e \in Calls : rcall[e].pc = "await_cache"} }
    /\ UNCHANGED <<active_jobs, cache, now, next_job, set_tasks, last_done, marks,
                 agentVars, breakerVars, libVars>>

\* route_query from the return of cache_manager.get to the end (lines 95-132):
\* a truthy cached value is returned, otherwise a new job is registered.
RouteResume(c) ==
    /\ rcall[c].pc = "await_cache"
    /\ LET h == rcall[c].hash
           v == CacheGetValue(h) IN
       /\ cache' = CacheAfterGet(h)
       /\ IF Truthy(v)
          THEN /\ rcall' = [rcall EXCEPT ![c] =
                      [@ EXCEPT !.pc = "done",
                                !.ret = [valid |-> TRUE, cached |-> TRUE, duplicate |-> FALSE,
                                         job_id |-> 0, result |-> v]]]
               /\ UNCHANGED <<active_jobs, next_job>>
          ELSE /\ active_jobs' = [active_jobs EXCEPT ![h] =
                      [present |-> TRUE, job_id |-> next_job, status |-> "queued",
                       completed_at |-> 0, result |-> "none"]]
               /\ next_job' = next_job + 1
               /\ rcall' = [rcall EXCEPT ![c] =
                      [@ EXCEPT !.pc = "done",
                                !.ret = [valid |-> TRUE, cached |-> FALSE, duplicate |-> FALSE,
                                         job_id |-> next_job, result |-> "none"]]]
    /\ UNCHANGED <<now, set_tasks, overlap, last_done, marks,
                 agentVars, breakerVars, libVars>>

\* mark_job_complete (lines 190-211): only for a registered hash; the job
\* stays in active_jobs, and the cache write is scheduled, not performed.
MarkJobComplete(h, r) ==
    /\ marks < MaxMarks
    /\ marks' = marks + 1
    /\ IF IsActiveJob(h)
       THEN /\ active_jobs' = [active_jobs EXCEPT ![h] =
                   [@ EXCEPT !.status = "completed", !.completed_at = now, !.result = r]]
            /\ set_tasks' = Append(set_tasks, [hash |-> h, value |-> r])
            /\ last_done' = [last_done EXCEPT ![h] = [done |-> TRUE, result |-> r, at |-> now]]
       ELSE UNCHANGED <<active_jobs, set_tasks, last_done>>
    /\ UNCHANGED <<cache, now, next_job, rcall, overlap,
                 agentVars, breakerVars, libVars>>

\* CacheManager.set run by the event loop (cache_manager.py lines 48-69).
\* max_size (10 000) is far above the keys of this model: no eviction.
CacheSetTask ==
    /\ set_tasks # <<>>
    /\ LET t == Head(set_tasks) IN
       cache' = [cache EXCEPT ![t.hash] =
                    [present |-> TRUE, value |-> t.value,
                     expires_at |-> now + SerpCacheTtlHours, created_at |-> now]]
    /\ set_tasks' = Tail(set_tasks)
    /\ UNCHANGED <<active_jobs, now, next_job, rcall, overlap, last_done, marks,
                 agentVars, breakerVars, libVars>>

\* cleanup_old_jobs (lines 228-248)
CleanupOldJobs(max_age_hours) ==
    /\ LET cutoff == now - max_age_hours IN
       active_jobs' = [h \in Hashes |->
            IF active_jobs[h].present /\ active_jobs[h].status = "completed"
               /\ active_jobs[h].completed_at < cutoff
            THEN NoJob ELSE active_jobs[h]]
    /\ UNCHANGED <<cache, now, next_job, rcall, set_tasks, overlap, last_done, marks,
                 agentVars, breakerVars, libVars>>

\* passage of time
Tick ==
    /\ now < MaxTime
    /\ now' = now + 1
    /\ UNCHANGED <<active_jobs, cache, next_job, rcall, set_tasks, overlap, last_done, marks,
                 agentVars, breakerVars, libVars>>

NextRouter ==
    \/ \E c \in Calls, q \in RawQueries, u \in UserIds : RouteBegin(c, q, u)
    \/ \E c \in Calls : RouteResume(c)
    \/ \E h \in Hashes, r \in Results : MarkJobComplete(h, r)
    \/ CacheSetTask
    \/ \E a \in {1, DefaultMaxAgeHours} : CleanupOldJobs(a)
    \/ Tick


(***************************************************************************)
(* Properties of the router.                                               *)
(***************************************************************************)
Returned(c)   == rcall[c].pc = "done" /\ rcall[c].ret.valid
CreatedJob(c) == Returned(c) /\ ~rcall[c].ret.cached /\ ~rcall[c].ret.duplicate

RoutedAfterCompletion(c) ==
    /\ Returned(c)
    /\ rcall[c].seen.done
    /\ rcall[c].began < rcall[c].seen.at + SerpCacheTtlHours

\* C2: once mark_job_complete(hash, r) has run, every later route_query with
\* the same hash that starts before the TTL has elapsed returns cached = true
\* and result = r.
C2_RouteAfterCompleteIsCached ==
    \A c \in Calls :
        RoutedAfterCompletion(c)
        => rcall[c].ret.cached /\ rcall[c].ret.result = rcall[c].seen.result

\* A route_query has returned for a hash completed before it started.
C2_Witness == \E c \in Calls : RoutedAfterCompletion(c)

(***************************************************************************)
(* Part II.  AgentController and SessionMemory                             *)
(*                                                                         *)
(* One session, owned by SessionUser.  A turn is one process_message call. *)
(* Its only real suspension is the worker thread of _generate_account_plan *)
(* (asyncio.to_thread); _gather_data, _regenerate_section and the search   *)
(* tool are synchronous, so everything before that point is one step.      *)
(***************************************************************************)
Turns == 1..MaxTurns
SessionUser == "u1"
RecentWindow == 3      \* session['messages'][-3:]
DeepWindow == 2        \* session['messages'][-2:]
WebIds == <<"w1", "w2", "w3", "w4">>

\* The replies the conflict question offers (lines 326-328).
OfferedReplies == { "dig deeper", "verify", "proceed", "continue", "skip conflicts" }

\* Messages a user may send.
UserTexts ==
    { "Research Acme", "Research Globex", "research", "yes", "hello",
      "what do you know", "update opportunities", "update strengths",
      "update swot", "regenerate plan" } \cup OfferedReplies

\* Replies of the general workflow: fixed or LLM-written text.
GeneralReplies == { "A:general", "A:general proceed" }

\* The cue words and phrases (of all the lists below) that occur as
\* substrings of the lower-cased text.  "A:research_done" and
\* "A:clarify_done" are the response texts of lines 397-422 and 1694-1704.
Contains(text) ==
    CASE text \in {"Research Acme", "Research Globex", "research"} -> {"research"}
      [] text = "yes"                  -> {"yes"}
      [] text = "hello"                -> {"hello"}
      [] text = "what do you know"     -> {"no"}
      [] text \in {"update opportunities", "update strengths", "update swot"} -> {"update"}
      [] text = "regenerate plan"      -> {"regenerate", "generate", "regenerate plan"}
      [] text = "A:research_done"      -> {"research", "analyze", "company", "generate", "regenerate",
                                           "edit", "section", "account plan for",
                                           "uploaded", "document", "proceed"}
      [] text = "A:clarify_done"       -> {"research", "analyze", "generate", "regenerate",
                                           "edit", "section", "refer"}
      [] text = "A:general proceed"    -> {"proceed"}
      [] text = "verify"               -> {"verify"}
      [] text = "proceed"              -> {"proceed"}
      [] text = "continue"             -> {"continue"}
      [] text = "skip conflicts"       -> {"skip conflicts"}
      [] OTHER                         -> {}

AddPatterns    == {"add field", "add section", "add new field", "add new section",
                   "add", "include", "insert field", "insert section"}
FieldKeywords  == {"ceo", "cto", "revenue", "field", "section", "company"}
RemovePatterns == {"remove field", "remove section", "delete field", "delete section",
                   "remove", "delete", "drop field", "drop section"}
EditPatterns   == {"edit", "update", "change", "modify", "regenerate", "rewrite"}
FollowupResearchWords == {"cross-check", "deeply", "verify", "check", "confirm", "prioritize"}
FollowupClarifyWords  == {"yes", "no", "clarify", "answer", "continue", "go with",
                          "source a", "source b", "prioritize"}
UploadWords    == {"uploaded", "pdf", "document", "file", "refer"}
PlanPhrases    == {"generate account plan", "create account plan", "make account plan",
                   "account plan for"}
ResearchWords  == {"research", "analyze", "company", "find", "generate", "create"}
UpdateWords    == {"update", "rewrite", "regenerate", "edit"}
ClarifyWords   == {"yes", "no", "clarify", "answer"}
SkipPhrases    == {"without conflicts", "skip conflicts", "ignore conflicts", "no conflicts",
                   "proceed without"}
DeepWords      == {"cross-check", "deeply", "verify", "proceed", "continue", "go ahead"}
PdfWords       == {"pdf", "uploaded", "document", "file", "refer"}
RegenPlanPhrases == {"regenerate account plan", "regenerate the account plan",
                     "regenerate plan", "regenerate the plan again"}
CommandUpdateWords == {"update", "regenerate", "refresh", "rewrite"}

Hit(words, text) == words \cap Contains(text) # {}

\* any(w in recent_text ...) over the last k messages
RecentHit(words, msgs, k) ==
    \E i \in 1..Len(msgs) : i > Len(msgs) - k /\ words \cap msgs[i] # {}

\* What is read back from a stored message: the words the later steps look
\* for in session['messages'] (lines 216, 239, 464).
Cues(text) == Contains(text) \cap (SkipPhrases \cup DeepWords \cup PdfWords)

\* Only the last RecentWindow messages are ever read back.
KeepRecent(msgs) ==
    IF Len(msgs) > RecentWindow
    THEN SubSeq(msgs, Len(msgs) - RecentWindow + 1, Len(msgs))
    ELSE msgs

\* AgentController._determine_intent
DetermineIntent(text, hasCompany, hasPlan, hasDocs) ==
    IF hasCompany /\ hasPlan /\ Hit(AddPatterns, text) /\ Hit(FieldKeywords, text)
        THEN "update_section"
    ELSE IF hasCompany /\ hasPlan /\ Hit(RemovePatterns, text) THEN "update_section"
    ELSE IF hasCompany /\ hasPlan /\ Hit(EditPatterns, text) THEN "update_section"
    ELSE IF hasCompany /\ Hit(FollowupResearchWords, text) THEN "research_company"
    ELSE IF hasCompany /\ Hit(FollowupClarifyWords, text) THEN "clarify"
    ELSE IF Hit(UploadWords, text) /\ hasDocs THEN "research_company"
    ELSE IF Hit(PlanPhrases, text) THEN "research_company"
    ELSE IF Hit(ResearchWords, text) THEN "research_company"
    ELSE IF Hit(UpdateWords, text) THEN "update_section"
    ELSE IF Hit(ClarifyWords, text) THEN "clarify"
    ELSE "general"

\* str.lower() on the company names of the model
Lower(name) ==
    CASE name = "Acme"   -> "acme"
      [] name = "Globex" -> "globex"
      [] OTHER           -> name

\* The first regular expression of _extract_company_name that matches.
RegexCompany(text) ==
    CASE text = "Research Acme"   -> "Acme"
      [] text = "Research Globex" -> "Globex"
      [] OTHER                    -> "none"

\* entity_extractor.extract_entities(...).get('company_name') on the
\* uploaded documents: the company the first document is about.
DocCompany(docs) == IF docs = <<>> THEN "none" ELSE docs[1].company

\* AgentController._extract_company_name: message, then uploaded documents,
\* then the capitalised words of the message (none in the texts above that
\* reach this point).
ExtractCompanyName(text) ==
    IF RegexCompany(text) # "none" THEN RegexCompany(text)
    ELSE IF DocCompany(vector_store) # "none" THEN DocCompany(vector_store)
    ELSE "none"

\* AgentController._extract_section_name (alias table, first match)
ExtractSectionName(text) ==
    CASE text = "update opportunities" -> "opportunities"
      [] text = "update strengths"     -> "swot.strengths"
      [] text = "update swot"          -> "swot"
      [] OTHER                         -> "none"

(***************************************************************************)
(* Account plans.  A plan is a mapping from section paths to contents;     *)
(* a nested swot sub-key is the path "swot.<key>".                         *)
(***************************************************************************)
SwotPaths == {"swot.strengths", "swot.weaknesses", "swot.opportunities", "swot.threats"}
\* the keys of _get_empty_account_plan
TemplatePaths ==
    {"company_overview", "market_summary", "key_insights", "pain_points", "opportunities",
     "competitor_analysis", "strategic_recommendations", "final_account_plan"} \cup SwotPaths
\* the keys of the plan generate_account_plan builds (lines 183-201)
PlanPaths ==
    TemplatePaths \cup {"company_name", "financial_summary", "products_services", "key_people",
                        "competitors", "recommended_strategy", "sources", "last_updated"}
\* the keys of the "ultimate fallback" literal (lines 1035-1054)
UltimatePaths ==
    TemplatePaths \cup {"company_name", "products_services", "sources", "last_updated"}

NoPlan == [p \in {} |-> ""]

\* AccountPlanGenerator.generate_account_plan: every section and last_updated
GeneratedPlan == [p \in PlanPaths |-> IF p = "last_updated" THEN "ts" ELSE "gen"]
\* _get_empty_account_plan: the template sections, empty, no last_updated
EmptyTemplate == [p \in TemplatePaths |-> ""]
\* the template carrying the error text in company_overview (lines 928-933)
ErrorTemplate == [EmptyTemplate EXCEPT !["company_overview"] = "Error"]
\* _generate_fallback_plan_fast, generator succeeded on the short context
FallbackPlan == [p \in PlanPaths |-> IF p = "last_updated" THEN "ts" ELSE "fallback"]
\* _generate_fallback_plan_fast, "ultimate fallback" literal
UltimatePlan == [p \in UltimatePaths |-> IF p = "last_updated" THEN "ts" ELSE "ultimate"]

\* What _generate_fallback_plan_fast can return
FallbackPlanFast(data_empty) ==
    IF data_empty
    THEN { [kind |-> "empty", plan |-> EmptyTemplate] }
    ELSE { [kind |-> "empty", plan |-> EmptyTemplate],
           [kind |-> "fallback", plan |-> FallbackPlan],
           [kind |-> "ultimate", plan |-> UltimatePlan] }

\* _generate_account_plan without its handlers: the timeout of the worker
\* thread leaves the method as an exception.
AccountPlanOutcomesUnhandled(data_empty) ==
    { [kind |-> "generated", plan |-> GeneratedPlan],
      [kind |-> "raised", plan |-> NoPlan] }

\* What _generate_account_plan can return once the worker thread is over:
\* the generated plan; on a timeout or an LLM error a fallback plan; on any
\* other exception the error template.  It never raises.
AccountPlanOutcomes(data_empty) ==
    { [kind |-> "generated", plan |-> GeneratedPlan] }
    \cup FallbackPlanFast(data_empty)
    \cup { [kind |-> "error_template", plan |-> ErrorTemplate] }

\* Paths that make up a named section
SectionPaths(section) == IF section = "swot" THEN SwotPaths ELSE {section}

\* What _regenerate_section can return: new content (a dict for swot), or
\* the "Error regenerating ..." string when the engine raised.
RegenerateOutcomes == { [ok |-> TRUE, content |-> "gen"],
                        [ok |-> TRUE, content |-> "regen"],
                        [ok |-> FALSE, content |-> "Error regenerating"] }

\* An assignment that rebuilds the swot mapping around the one sub-key.
ApplySectionUpdateRebuildingSwot(plan, section, out) ==
    [p \in DOMAIN plan \cup SectionPaths(section) |->
        IF p \in SectionPaths(section) THEN out.content
        ELSE IF p \in SwotPaths /\ section \in SwotPaths THEN "No content yet."
        ELSE plan[p]]

\* The assignment of the regenerated content into the plan
\* (lines 1219-1241 and 1518-1529).
ApplySectionUpdate(plan, section, out) ==
    IF section = "swot"
    THEN [p \in DOMAIN plan \cup SwotPaths |->
            IF p \in SwotPaths
            THEN (IF out.ok THEN out.content
                  ELSE IF p = "swot.strengths" THEN out.content ELSE "No content yet.")
            ELSE plan[p]]
    ELSE [p \in DOMAIN plan \cup {section} |->
            IF p = section THEN out.content ELSE plan[p]]

(***************************************************************************)
(* Retrieval.                                                              *)
(***************************************************************************)
\* Uploaded documents the vector store may hold when the session starts.
DocChoices ==
    { <<>>,
      << [id |-> "d1", company |-> "Globex", owner |-> "u1"] >>,
      << [id |-> "d1", company |-> "Globex", owner |-> "u2"] >> }

OwnedBy(docs, u) == SelectSeq(docs, LAMBDA d : d.owner = u)

\* rag_pipeline.retrieve_for_company(company_name, user_id=...)
RetrieveForCompany(co) ==
    SelectSeq(vector_store, LAMBDA d : d.owner = SessionUser /\ Lower(d.company) = Lower(co))

\* AgentController._gather_data: the company the session ends up with and
\* the list the method returns (and appends to session['research_data']).
\*   web   : number of distinct usable web results over the three searches
\*   ragok : FALSE when the vector-store retrieval raised
GatherData(company, msgs, web, ragok) ==
    LET mentions_pdf == RecentHit(PdfWords, msgs, RecentWindow)
        owned   == OwnedBy(vector_store, SessionUser)
        upl     == IF owned # <<>> THEN owned ELSE vector_store
        use_upl == ragok /\ mentions_pdf /\ upl # <<>>
        doc_co  == IF use_upl THEN DocCompany(upl) ELSE "none"
        co      == IF doc_co # "none" /\ Lower(doc_co) # Lower(company) THEN doc_co ELSE company
        rag     == IF ~ragok THEN <<>>
                   ELSE IF use_upl THEN upl
                   ELSE RetrieveForCompany(co)
        relevant == SelectSeq(rag, LAMBDA d : d.owner = SessionUser
                                              /\ Lower(d.company) = Lower(co))
        docs    == [i \in 1..Len(relevant) |->
                      [company |-> relevant[i].company, src |-> "uploaded", id |-> relevant[i].id]]
        webs    == [i \in 1..web |-> [company |-> co, src |-> "web", id |-> WebIds[i]]]
    IN [company |-> co, data |-> docs \o webs]

\* AgentController._detect_conflicts: nothing below two items; otherwise
\* what the detector finds ("none", only "low" severities, or some "high")
DetectConflicts(data, found) == IF Len(data) < 2 THEN "none" ELSE found

IdleTurn ==
    [pc |-> "idle", text |-> "", intent |-> "none", wf |-> "none",
     company |-> "none", data_empty |-> TRUE, ret |-> "none", outcome |-> "none",
     stored |-> FALSE, retrieved |-> FALSE, detected |-> FALSE,
     conflict_at_start |-> FALSE, data_at_start |-> FALSE,
     prev_company |-> "none", determined |-> "none", stale |-> FALSE]

NoUpdate == [done |-> FALSE, section |-> "none", before |-> NoPlan, after |-> NoPlan,
             failed |-> FALSE]

\* SessionMemory.create_session, and an AgentController per message
InitAgent ==
    /\ company_name = "none"
    /\ account_plan = NoPlan
    /\ research_data = <<>>
    /\ conflicts = <<>>
    /\ messages = <<>>
    /\ agent_state = "idle"
    /\ vector_store \in DocChoices
    /\ turn = [t \in Turns |-> IdleTurn]
    /\ last_turn = IdleTurn
    /\ last_update = NoUpdate
    /\ conflict_pending = FALSE

AgentAtRest == InitAgent /\ vector_store = <<>>

ConflictFindings == {"none", "low", "high"}

\* process_message, lines 75-81: a turn starts, turns start in order
Begins(t, text, intent) ==
    /\ turn[t].pc = "idle"
    /\ \A d \in Turns : d < t => turn[d].pc # "idle"
    /\ intent = DetermineIntent(text, company_name # "none", account_plan # NoPlan,
                                vector_store # <<>>)

\* The turn record once the user message is stored and the intent known
Started(text, intent) ==
    [IdleTurn EXCEPT !.text = text, !.intent = intent,
                     !.conflict_at_start = conflict_pending,
                     !.data_at_start = (research_data # <<>>),
                     !.prev_company = company_name]

\* The turn returns: its locals are dropped, its outcome is remembered
Returns(t, rec) ==
    /\ turn' = [turn EXCEPT ![t] = [IdleTurn EXCEPT !.pc = "done"]]
    /\ last_turn' = [rec EXCEPT !.pc = "done"]

\* The turn waits for the worker thread
Suspends(t, rec) ==
    /\ turn' = [turn EXCEPT ![t] = [rec EXCEPT !.pc = "generating"]]
    /\ UNCHANGED last_turn

\* session_memory.add_message
AddMessage(msgs, text) == KeepRecent(Append(msgs, Cues(text)))

\* _research_workflow from its start to the conflict question or to the
\* suspension in _generate_account_plan (lines 172-379, 678-898).
\*   text : the message the workflow works on;  base : the turn so far
ResearchWorkflow(t, text, base, msgs, web, ragok, found) ==
    LET company == ExtractCompanyName(text) IN
    IF company = "none"
    THEN /\ Returns(t, [base EXCEPT !.wf = "research", !.ret = "ask_company"])
         /\ messages' = msgs
         /\ conflict_pending' = FALSE
         /\ UNCHANGED <<company_name, account_plan, research_data, conflicts>>
    ELSE
    LET cleared  == company_name # "none" /\ Lower(company_name) # Lower(company)
        rd0      == IF cleared THEN <<>> ELSE research_data
        cf0      == IF cleared THEN <<>> ELSE conflicts
        g        == GatherData(company, msgs, web, ragok)
        data     == g.data
        skip     == RecentHit(SkipPhrases, msgs, RecentWindow)
        found0   == IF skip THEN "none" ELSE DetectConflicts(data, found)
        uploaded_only == \A i \in 1..Len(data) : data[i].src = "uploaded"
        found1   == IF uploaded_only THEN "none" ELSE found0
        deep     == ~skip /\ RecentHit(DeepWords, msgs, DeepWindow)
        ask      == found1 = "high" /\ ~deep /\ ~skip
        filtered == SelectSeq(data, LAMBDA c : Lower(c.company) = Lower(company))
        stored   == rd0 \o data
        rec      == [base EXCEPT !.wf = "research", !.company = company,
                        !.determined = g.company, !.retrieved = TRUE, !.detected = ~skip,
                        !.data_empty = (filtered = <<>>),
                        !.stale = (\E i \in 1..Len(stored) :
                                      /\ base.prev_company # "none"
                                      /\ Lower(stored[i].company) = Lower(base.prev_company))]
    IN /\ company_name' = g.company
       /\ research_data' = stored
       /\ messages' = msgs
       /\ UNCHANGED account_plan
       /\ IF ask
          THEN /\ conflicts' = Append(cf0, [company |-> company, severity |-> "high"])
               /\ conflict_pending' = TRUE
               /\ Returns(t, [rec EXCEPT !.ret = "conflict_question"])
          ELSE /\ conflicts' = cf0
               /\ conflict_pending' = FALSE
               /\ Suspends(t, rec)

\* process_message dispatched to _research_workflow
BeginResearch(t, text, web, ragok, found) ==
    /\ Begins(t, text, "research_company")
    /\ ResearchWorkflow(t, text, Started(text, "research_company"),
                        AddMessage(messages, text), web, ragok, found)
    /\ UNCHANGED <<agent_state, vector_store, last_update, routerVars, breakerVars, libVars>>

\* process_message dispatched to _clarification_workflow (lines 1644-1689)
BeginClarify(t, text, web, ragok, found) ==
    /\ Begins(t, text, "clarify")
    /\ LET base == Started(text, "clarify")
           msgs == AddMessage(messages, text) IN
       IF company_name = "none"
       THEN /\ Returns(t, [base EXCEPT !.wf = "clarify", !.ret = "text"])
            /\ messages' = msgs
            /\ conflict_pending' = FALSE
            /\ UNCHANGED <<company_name, account_plan, research_data, conflicts>>
       ELSE IF research_data = <<>>
       THEN ResearchWorkflow(t, IF company_name = "Acme" THEN "Research Acme"
                                                       ELSE "Research Globex",
                             base, msgs, web, ragok, found)
       ELSE /\ Suspends(t, [base EXCEPT !.wf = "clarify", !.company = company_name,
                                          !.data_empty = FALSE])
            /\ messages' = msgs
            /\ conflict_pending' = FALSE
            /\ UNCHANGED <<company_name, account_plan, research_data, conflicts>>
    /\ UNCHANGED <<agent_state, vector_store, last_update, routerVars, breakerVars, libVars>>

\* process_message dispatched to _general_workflow: a reply is stored
BeginGeneral(t, text, reply) ==
    /\ Begins(t, text, "general")
    /\ Returns(t, [Started(text, "general") EXCEPT !.wf = "general", !.ret = "text"])
    /\ messages' = AddMessage(AddMessage(messages, text), reply)
    /\ conflict_pending' = FALSE
    /\ UNCHANGED <<company_name, account_plan, research_data, conflicts,
                   agent_state, vector_store, last_update, routerVars, breakerVars, libVars>>

\* process_message dispatched to _update_section_workflow (lines 1056-1290,
\* 1480-1544): no plan; whole-plan regeneration; one parsed "update" command.
BeginUpdate(t, text, out) ==
    /\ Begins(t, text, "update_section")
    /\ LET base == Started(text, "update_section")
           section == IF Hit(CommandUpdateWords, text) THEN ExtractSectionName(text)
                      ELSE "none" IN
       IF account_plan = NoPlan \/ (~Hit(RegenPlanPhrases, text) /\ section = "none")
       THEN /\ Returns(t, [base EXCEPT !.wf = "update", !.ret = "text"])
            /\ UNCHANGED <<account_plan, last_update>>
       ELSE IF Hit(RegenPlanPhrases, text)
       THEN /\ Suspends(t, [base EXCEPT !.wf = "regenerate", !.company = company_name,
                                          !.data_empty = (research_data = <<>>)])
            /\ UNCHANGED <<account_plan, last_update>>
       ELSE LET plan == ApplySectionUpdate(account_plan, section, out) IN
            /\ account_plan' = plan
            /\ last_update' = [done |-> TRUE, section |-> section,
                               before |-> account_plan, after |-> plan,
                               failed |-> ~out.ok]
            /\ Returns(t, [base EXCEPT !.wf = "update", !.ret = "plan", !.stored = TRUE])
    /\ messages' = AddMessage(messages, text)
    /\ conflict_pending' = FALSE
    /\ UNCHANGED <<company_name, research_data, conflicts,
                   agent_state, vector_store, routerVars, breakerVars, libVars>>

\* The worker thread of _generate_account_plan is over: the workflow stores
\* the plan and answers (lines 379-438, 1083-1091, 1689-1714).  An exception
\* leaving _generate_account_plan would leave the research and clarify
\* workflows too; the regeneration catches it.
FinishPlan(t, o) ==
    /\ turn[t].pc = "generating"
    /\ o \in AccountPlanOutcomes(turn[t].data_empty)
    /\ IF o.kind = "raised"
       THEN /\ Returns(t, [turn[t] EXCEPT !.outcome = o.kind,
                              !.ret = IF turn[t].wf = "regenerate" THEN "text" ELSE "error"])
            /\ UNCHANGED <<account_plan, messages>>
       ELSE /\ account_plan' = o.plan
            /\ messages' = IF turn[t].wf = "research" THEN AddMessage(messages, "A:research_done")
                           ELSE IF turn[t].wf = "clarify" THEN AddMessage(messages, "A:clarify_done")
                           ELSE messages
            /\ Returns(t, [turn[t] EXCEPT !.outcome = o.kind, !.ret = "plan", !.stored = TRUE])
    /\ UNCHANGED <<company_name, research_data, conflicts, agent_state, vector_store,
                   last_update, conflict_pending, routerVars, breakerVars, libVars>>

NextAgent ==
    \/ \E t \in Turns, text \in UserTexts, web \in 0..MaxWeb, ragok \in BOOLEAN,
          found \in ConflictFindings : BeginResearch(t, text, web, ragok, found)
    \/ \E t \in Turns, text \in UserTexts, web \in 0..MaxWeb, ragok \in BOOLEAN,
          found \in ConflictFindings : BeginClarify(t, text, web, ragok, found)
    \/ \E t \in Turns, text \in UserTexts, reply \in GeneralReplies : BeginGeneral(t, text, reply)
    \/ \E t \in Turns, text \in UserTexts, out \in RegenerateOutcomes : BeginUpdate(t, text, out)
    \/ \E t \in Turns, o \in AccountPlanOutcomes(FALSE) : FinishPlan(t, o)

(***************************************************************************)
(* Part III.  The enrichment circuit breaker of WebSearchTool              *)
(***************************************************************************)
BreakerAtRest ==
    /\ llm_failure_count = 0
    /\ llm_disabled = FALSE
    /\ controllers = 1
    /\ searches = 0
    /\ last_results = <<>>
    /\ tripped = FALSE
    /\ llm_after_trip = FALSE

\* What one batch contributes to the result list
Enriched == [confidence |-> "llm", key_facts |-> "llm"]
Basic    == [confidence |-> 8, key_facts |-> <<>>]      \* confidence 0.8, key_facts []

BatchOutcomes == {"ok", "fail"}

\* Sequences of batch outcomes of one call: a batch per three results
RECURSIVE OutcomeSeqs(_)
OutcomeSeqs(n) ==
    IF n = 0 THEN { <<>> }
    ELSE LET shorter == OutcomeSeqs(n - 1) IN
         shorter \cup { Append(q, o) : q \in {x \in shorter : Len(x) = n - 1}, o \in BatchOutcomes }

\* The batch loop of _process_with_llm (lines 503-650): the LLM is called for
\* every batch; a success resets the count, a failure counts and may trip.
RECURSIVE RunBatches(_, _)
RunBatches(outs, st) ==
    IF outs = <<>> THEN st
    ELSE LET ok  == Head(outs) = "ok"
             cnt == IF ok THEN 0 ELSE st.count + 1
             dis == st.disabled \/ (~ok /\ cnt >= LlmFailureThreshold)
         IN RunBatches(Tail(outs),
                [count |-> cnt, disabled |-> dis,
                 tripped |-> st.tripped \/ dis,
                 after |-> st.after \/ st.tripped,
                 results |-> Append(st.results, IF ok THEN Enriched ELSE Basic)])

\* _create_basic_results
CreateBasicResults(outs) == [i \in 1..Len(outs) |-> Basic]

\* AgentController.__init__ for the next message of the session builds a new
\* WebSearchTool (chat.py line 42, websocket.py line 170)
NewController ==
    /\ controllers < MaxControllers
    /\ controllers' = controllers + 1
    /\ llm_failure_count' = 0
    /\ llm_disabled' = FALSE
    /\ searches' = 0
    /\ last_results' = <<>>
    /\ UNCHANGED <<tripped, llm_after_trip, routerVars, agentVars, libVars>>

\* One search_company call of _gather_data reaching _process_with_llm
\* (web_search.py lines 456-698); outs: the outcome of the LLM on each batch
ProcessWithLLM(outs) ==
    /\ searches < SearchesPerGather
    /\ searches' = searches + 1
    /\ IF llm_disabled \/ outs = <<>>
       THEN /\ last_results' = CreateBasicResults(outs)
            /\ UNCHANGED <<llm_failure_count, llm_disabled, tripped, llm_after_trip>>
       ELSE LET st == RunBatches(outs, [count |-> llm_failure_count, disabled |-> llm_disabled,
                                        tripped |-> tripped, after |-> llm_after_trip,
                                        results |-> <<>>]) IN
            /\ llm_failure_count' = st.count
            /\ llm_disabled' = st.disabled
            /\ tripped' = st.tripped
            /\ llm_after_trip' = st.after
            /\ last_results' = st.results
    /\ UNCHANGED <<controllers, routerVars, agentVars, libVars>>

NextBreaker ==
    \/ NewController
    \/ \E outs \in OutcomeSeqs(MaxBatches) : ProcessWithLLM(outs)

(***************************************************************************)
(* Part IV.  _update_section_workflow on a message of several commands     *)
(* (lines 1100-1290): the message is split into clauses, every clause is   *)
(* parsed into operations, the operations are executed in list order and   *)
(* the plan is saved once.                                                 *)
(***************************************************************************)
\* Clauses a message may be made of (lower-cased, separators removed).
Clauses ==
    { "add ceo field", "remove market summary", "update opportunities",
      "add field notes", "remove field notes", "add field revenue forecast" }

\* which of the command words occur in the clause (lines 1133, 1157, 1180)
ClauseWords(cmd) ==
    CASE cmd \in {"add ceo field", "add field notes", "add field revenue forecast"} -> {"add"}
      [] cmd \in {"remove market summary", "remove field notes"} -> {"remove"}
      [] cmd = "update opportunities" -> {"update"}
      [] OTHER -> {}

\* section_patterns of lines 1142-1152: the first pattern found in a clause
\* for which _extract_section_name returned None
SectionPattern(cmd) == "none"

\* the first of field_keywords found after "add" (lines 1159-1170)
AddKeyword(cmd) ==
    CASE cmd = "add ceo field" -> "ceo"
      [] cmd = "add field revenue forecast" -> "revenue"
      [] OTHER -> "none"

\* re.search(r'add\s+(?:field|section)\s+["\']?([^"\']+)["\']?', cmd), the
\* group with blanks made underscores (lines 1172-1176)
AddFieldPattern(cmd) ==
    CASE cmd = "add field notes" -> "notes"
      [] cmd = "add field revenue forecast" -> "revenue_forecast"
      [] OTHER -> "none"

\* the first of field_keywords found after "remove"/"delete" (lines 1181-1193)
RemoveKeyword(cmd) ==
    CASE cmd = "remove market summary" -> "market_summary"
      [] OTHER -> "none"

InOps(ops, op) == \E i \in 1..Len(ops) : ops[i] = op

AppendNew(ops, op) == IF InOps(ops, op) THEN ops ELSE Append(ops, op)

\* lines 1132-1153: the update/regenerate check of one clause
ParseUpdate(cmd, ops) ==
    IF ClauseWords(cmd) \cap CommandUpdateWords = {} THEN ops
    ELSE IF ExtractSectionName(cmd) # "none"
         THEN AppendNew(ops, <<"update", ExtractSectionName(cmd)>>)
    ELSE IF SectionPattern(cmd) # "none"
         THEN AppendNew(ops, <<"update", SectionPattern(cmd)>>)
    ELSE ops

\* lines 1156-1176: the add check of one clause
ParseAdd(cmd, ops) ==
    IF "add" \notin ClauseWords(cmd) THEN ops
    ELSE LET a == IF AddKeyword(cmd) # "none"
                  THEN AppendNew(ops, <<"add", AddKeyword(cmd)>>) ELSE ops
         IN IF AddFieldPattern(cmd) # "none"
            THEN AppendNew(a, <<"add", AddFieldPattern(cmd)>>) ELSE a

\* lines 1179-1193: the remove/delete check of one clause
ParseRemove(cmd, ops) ==
    IF ClauseWords(cmd) \cap {"remove", "delete", "drop"} = {} THEN ops
    ELSE IF RemoveKeyword(cmd) # "none"
         THEN AppendNew(ops, <<"remove", RemoveKeyword(cmd)>>)
    ELSE ops

\* the loop of lines 1127-1193 over the clauses
RECURSIVE ParseCommands(_, _)
ParseCommands(cmds, ops) ==
    IF cmds = <<>> THEN ops
    ELSE ParseCommands(Tail(cmds),
                       ParseRemove(Head(cmds), ParseAdd(Head(cmds), ParseUpdate(Head(cmds), ops))))

\* _generate_field_content always returns a text
FieldContent == "field"

\* one operation on the local copy of the plan (lines 1207-1277)
ExecuteOperation(plan, op, out) ==
    CASE op[1] = "update" -> ApplySectionUpdate(plan, op[2], out)
      [] op[1] = "add" ->
            IF op[2] \in DOMAIN plan THEN plan
            ELSE [p \in DOMAIN plan \cup {op[2]} |-> IF p = op[2] THEN FieldContent ELSE plan[p]]
      [] op[1] = "remove" ->
            IF op[2] \in DOMAIN plan THEN [p \in DOMAIN plan \ {op[2]} |-> plan[p]] ELSE plan

\* the loop of line 1207 over the operations
RECURSIVE ExecuteOperations(_, _, _)
ExecuteOperations(plan, ops, out) ==
    IF ops = <<>> THEN plan
    ELSE ExecuteOperations(ExecuteOperation(plan, Head(ops), out), Tail(ops), out)

\* messages of two to MaxClauses different clauses
RECURSIVE ClauseSeqs(_)
ClauseSeqs(n) ==
    IF n = 0 THEN { <<>> }
    ELSE LET shorter == ClauseSeqs(n - 1)
         IN shorter \cup { Append(m, c) : m \in { x \in shorter : Len(x) = n - 1 }, c \in Clauses }

Distinct(m) == \A i \in 1..Len(m), j \in 1..Len(m) : i # j => m[i] # m[j]

MultiCommandMessages == { m \in ClauseSeqs(MaxClauses) : Len(m) >= 2 /\ Distinct(m) }

\* plans the session may hold when the message arrives
StoredPlans ==
    { GeneratedPlan, EmptyTemplate,
      [p \in PlanPaths \cup {"ceo"} |-> IF p = "ceo" THEN "old" ELSE GeneratedPlan[p]] }

UpdateAtRest ==
    /\ commands = <<>>
    /\ operations = <<>>
    /\ plan_before = NoPlan
    /\ plan_after = NoPlan
    /\ upc = "ready"

InitUpdate ==
    /\ commands \in MultiCommandMessages
    /\ operations = <<>>
    /\ plan_before \in StoredPlans
    /\ plan_after = NoPlan
    /\ upc = "ready"

\* _update_section_workflow, lines 1056-1290, on a message of several
\* clauses that yields at least one operation; out is what
\* _regenerate_section returns
UpdateSectionWorkflow(out) ==
    /\ upc = "ready"
    /\ commands # <<>>
    /\ LET ops == ParseCommands(commands, <<>>)
       IN /\ ops # <<>>
          /\ operations' = ops
          /\ plan_after' = ExecuteOperations(plan_before, ops, out)
    /\ upc' = "done"
    /\ UNCHANGED <<commands, plan_before, exceptUpdate>>

NextUpdate == \E out \in RegenerateOutcomes : UpdateSectionWorkflow(out)

(***************************************************************************)
(* Part V.  Calls of the LLM (llm/gemini_engine.py) and the generation of  *)
(* one section (llm/account_plan_generator.py).  The functions are         *)
(* synchronous; what the API answers to the successive generate_content    *)
(* calls is the input, drawn when the behaviour starts.                    *)
(***************************************************************************)
\* What one generate_content call can end in.
OutcomeKinds == {"ok", "max_tokens_empty", "safety", "recitation", "rate_limit", "timeout"}

RECURSIVE KindSeqs(_)
KindSeqs(n) ==
    IF n = 0 THEN { <<>> }
    ELSE LET shorter == KindSeqs(n - 1)
         IN shorter \cup { Append(h, k) : h \in { x \in shorter : Len(x) = n - 1 }, k \in OutcomeKinds }

\* The answers of the API: the first ones one by one, then always the same.
Scripts == { [head |-> h, tail |-> k] : h \in KindSeqs(MaxScriptHead), k \in OutcomeKinds }

\* the answer to the i-th generate_content call
Outcome(sc, i) == IF i <= Len(sc.head) THEN sc.head[i] ELSE sc.tail

\* GeminiEngine.generate from the i-th API call on, being in iteration
\* `attempt` of its loop.  res: "text", or the exception that leaves it:
\* "max_tokens" / "blocked" (ValueError raised at once), "quota_exceeded"
\* (ValueError after the last attempt), "timeout" (TimeoutError).
RECURSIVE Generate(_, _, _)
Generate(sc, i, attempt) ==
    LET o == Outcome(sc, i)
        again(res) ==
            IF attempt < GenerateMaxRetries - 1
            THEN LET r == Generate(sc, i + 1, attempt + 1)
                 IN [res |-> r.res, calls |-> r.calls + 1,
                     waits |-> <<2 ^ (attempt + 1)>> \o r.waits]
            ELSE [res |-> res, calls |-> 1, waits |-> <<>>]
    IN CASE o = "ok"               -> [res |-> "text", calls |-> 1, waits |-> <<>>]
         [] o = "max_tokens_empty" -> [res |-> "max_tokens", calls |-> 1, waits |-> <<>>]
         [] o \in {"safety", "recitation"} -> [res |-> "blocked", calls |-> 1, waits |-> <<>>]
         [] o = "rate_limit"       -> again("quota_exceeded")
         [] o = "timeout"          -> again("timeout")

NoRun == [entry |-> "none", section |-> "none", value |-> "none", raised |-> FALSE,
          calls |-> 0, waits |-> <<>>, shrunk |-> 0]

\* a result that follows g: its calls and waits come after those of g
After(g, r) == [r EXCEPT !.calls = g.calls + r.calls, !.waits = g.waits \o r.waits]

\* The retry loop of a section generator of AccountPlanGenerator
\* (_generate_company_overview, lines 399-435; the same loop in
\* _generate_products_services, lines 463-496, and the other text
\* sections).  value "fallback" is the text returned after the loop.
RECURSIVE SectionLoop(_, _, _)
SectionLoop(sc, i, attempt) ==
    IF attempt >= SectionAttempts
    THEN [NoRun EXCEPT !.value = "fallback"]
    ELSE LET g == Generate(sc, i, 0)
             here == [NoRun EXCEPT !.calls = g.calls, !.waits = g.waits]
         IN CASE g.res = "text" -> [here EXCEPT !.value = "text"]
              [] g.res = "max_tokens" ->
                    IF attempt = 0
                    THEN LET r == After(g, SectionLoop(sc, i + g.calls, attempt + 1))
                         IN [r EXCEPT !.shrunk = r.shrunk + 1]
                    ELSE [here EXCEPT !.raised = TRUE]
              [] g.res \in {"blocked", "quota_exceeded"} -> [here EXCEPT !.raised = TRUE]
              [] g.res = "timeout" -> After(g, SectionLoop(sc, i + g.calls, attempt + 1))

\* _generate_final_account_plan (lines 1015-1050): one call, no loop
FinalPlanSection(sc) ==
    LET g == Generate(sc, 1, 0)
    IN [NoRun EXCEPT !.calls = g.calls, !.waits = g.waits,
                     !.value = IF g.res = "text" THEN "text" ELSE "fallback"]

\* the text sections of the model and their generators
LoopSections == {"company_overview", "products_services"}
TextSections == LoopSections \cup {"final_account_plan"}

\* safe_generate (lines 104-113) around the generator of the section
SafeGenerate(sc, section) ==
    LET r == IF section \in LoopSections THEN SectionLoop(sc, 1, 0) ELSE FinalPlanSection(sc)
    IN [r EXCEPT !.entry = "safe_generate", !.section = section,
                 !.value = IF r.raised THEN "fallback" ELSE r.value,
                 !.raised = FALSE]

\* GeminiEngine._generate_section_with_retry (lines 500-567) around a
\* section generator of the engine, which is one generate call
RECURSIVE SectionWithRetry(_, _, _)
SectionWithRetry(sc, i, attempt) ==
    LET g == Generate(sc, i, 0)
        here == [NoRun EXCEPT !.calls = g.calls, !.waits = g.waits]
    IN CASE g.res = "text" -> [here EXCEPT !.value = "text"]
         [] g.res \in {"max_tokens", "blocked", "timeout"} ->
               IF attempt < SectionMaxRetries
               THEN After([g EXCEPT !.waits = g.waits \o <<2 * (attempt + 1)>>],
                          SectionWithRetry(sc, i + g.calls, attempt + 1))
               ELSE [here EXCEPT !.value = "fallback"]
         [] g.res = "quota_exceeded" -> [here EXCEPT !.raised = TRUE]

\* AgentController._regenerate_section (lines 1609-1642) on a text section:
\* the engine's generator is one generate call, every exception becomes the
\* text "Error regenerating <section>. Please try again."
RegenerateSection(sc) ==
    LET g == Generate(sc, 1, 0)
    IN [NoRun EXCEPT !.calls = g.calls, !.waits = g.waits,
                     !.value = IF g.res = "text" THEN "text" ELSE "error_text"]

LlmAtRest ==
    /\ script = [head |-> <<>>, tail |-> "ok"]
    /\ run = NoRun

InitLlm ==
    /\ script \in Scripts
    /\ run = NoRun

\* llm_engine.generate(...) called on its own
GenerateCall ==
    /\ run.entry = "none"
    /\ LET g == Generate(script, 1, 0)
       IN run' = [NoRun EXCEPT !.entry = "generate", !.calls = g.calls, !.waits = g.waits,
                               !.value = IF g.res = "text" THEN "text" ELSE "none",
                               !.raised = (g.res # "text")]
    /\ UNCHANGED <<script, exceptLlm>>

\* generate_account_plan producing one section
GenerateSection(section) ==
    /\ run.entry = "none"
    /\ run' = SafeGenerate(script, section)
    /\ UNCHANGED <<script, exceptLlm>>

\* _generate_account_plan_section_by_section producing one section
GenerateSectionWithRetry ==
    /\ run.entry = "none"
    /\ run' = [SectionWithRetry(script, 1, 0) EXCEPT !.entry = "section_with_retry",
                                                      !.section = "company_overview"]
    /\ UNCHANGED <<script, exceptLlm>>

\* an update turn regenerating one section
RegenerateSectionCall ==
    /\ run.entry = "none"
    /\ run' = [RegenerateSection(script) EXCEPT !.entry = "regenerate_section",
                                                !.section = "opportunities"]
    /\ UNCHANGED <<script, exceptLlm>>

NextLlm ==
    \/ GenerateCall
    \/ \E section \in TextSections : GenerateSection(section)
    \/ GenerateSectionWithRetry
    \/ RegenerateSectionCall

(***************************************************************************)
(* Part VI.  One web search (tools/web_search.py): the SERP request with   *)
(* its retry decorator, the enrichment of the results with the scraped     *)
(* pages, and their post-processing with or without the LLM.               *)
(***************************************************************************)
\* What one POST to the Serper API can end in: a SERP, a connection error
\* or timeout, a 5xx status (raise_for_status), a body that is not JSON.
HttpKinds == {"ok", "network_error", "http_5xx", "bad_json"}
HttpScripts == { [head |-> h, tail |-> k] :
                    h \in { <<>> } \cup { <<x>> : x \in HttpKinds }, k \in HttpKinds }

\* A text is its first 200 characters and what follows them.
NoText == [prefix |-> "", rest |-> ""]
Snippets == { [prefix |-> p, rest |-> ""] : p \in {"Acme makes", "Beta sells"} }
Pages == { [prefix |-> "Acme makes", rest |-> "robots"],
           [prefix |-> "ACME makes", rest |-> "tools"],
           [prefix |-> "Beta sells", rest |-> "robots"] }
Urls == {"acme.com/about", "news.com/acme"}

\* str.lower() on the texts of the model
LowerText(s) == CASE s \in {"Acme makes", "ACME makes"} -> "acme makes"
              [] s = "Beta sells" -> "beta sells"
              [] OTHER -> s

\* One organic result of the SERP, with what the world will answer about
\* it: the page Firecrawl scrapes (NoText: nothing usable) and the
\* confidence, in tenths, of the LLM's analysis.
SerpItems == [url : Urls, snippet : Snippets, scraped : Pages \cup {NoText},
              score : {DefaultConfidence, DefaultConfidence + 1}]

RECURSIVE ItemSeqs(_)
ItemSeqs(n) ==
    IF n = 0 THEN { <<>> }
    ELSE LET shorter == ItemSeqs(n - 1)
         IN shorter \cup { Append(h, x) : h \in { y \in shorter : Len(y) = n - 1 }, x \in SerpItems }

\* _fallback_search: logs and returns no results
FallbackSearch == <<>>

\* The body of _search_with_serper for one POST: every exception of the
\* request is caught inside the function, none leaves it.
SerperBody(key, answer, items) ==
    IF ~key THEN [raised |-> FALSE, results |-> FallbackSearch]
    ELSE CASE answer = "ok" -> [raised |-> FALSE, results |-> items]
           [] answer \in {"network_error", "http_5xx"} ->
                 [raised |-> FALSE, results |-> FallbackSearch]
           [] answer = "bad_json" -> [raised |-> FALSE, results |-> <<>>]

Larger(a, b) == IF a >= b THEN a ELSE b
Smaller(a, b) == IF a <= b THEN a ELSE b
\* wait_exponential(multiplier=1, min=2, max=10) after the given attempt
WaitExponential(attempt) == Larger(2, Smaller(2 ^ (attempt - 1), 10))

\* _search_with_serper under its @retry decorator: the body is called again
\* only when a RequestException or TimeoutError leaves it.
RECURSIVE SearchWithSerper(_, _, _, _)
SearchWithSerper(key, sc, items, attempt) ==
    LET b == SerperBody(key, Outcome(sc, attempt), items)
    IN IF b.raised /\ attempt < StopAfterAttempt
       THEN LET r == SearchWithSerper(key, sc, items, attempt + 1)
            IN [r EXCEPT !.waits = <<WaitExponential(attempt)>> \o r.waits]
       ELSE [results |-> b.results, attempts |-> attempt, waits |-> <<>>]

\* _enrich_with_firecrawl: full_content is the scraped page, or the snippet
\* when the scrape gave nothing usable
EnrichWithFirecrawl(items) ==
    [ i \in 1..Len(items) |->
        [url |-> items[i].url, snippet |-> items[i].snippet,
         full_content |-> IF items[i].scraped # NoText THEN items[i].scraped
                          ELSE items[i].snippet,
         score |-> items[i].score] ]

\* _create_basic_results
CreateBasicResultList(results) ==
    [ i \in 1..Len(results) |->
        [url |-> results[i].url, snippet |-> results[i].snippet,
         full_content |-> results[i].full_content, confidence |-> DefaultConfidence] ]

\* content_key = full_content[:200].lower() or url.lower()
ContentKey(r) ==
    IF LowerText(r.full_content.prefix) # "" THEN LowerText(r.full_content.prefix) ELSE LowerText(r.url)

RECURSIVE Deduplicate(_, _)
Deduplicate(rs, seen_content) ==
    IF rs = <<>> THEN <<>>
    ELSE LET k == ContentKey(Head(rs))
         IN IF k # "" /\ k \in seen_content
            THEN Deduplicate(Tail(rs), seen_content)
            ELSE <<Head(rs)>> \o Deduplicate(Tail(rs), seen_content \cup {k})

\* list.sort(key=confidence, reverse=True): stable
RECURSIVE InsertByConfidence(_, _)
InsertByConfidence(r, sorted) ==
    IF sorted = <<>> THEN <<r>>
    ELSE IF Head(sorted).confidence < r.confidence THEN <<r>> \o sorted
    ELSE <<Head(sorted)>> \o InsertByConfidence(r, Tail(sorted))

RECURSIVE SortByConfidence(_)
SortByConfidence(rs) ==
    IF rs = <<>> THEN <<>>
    ELSE InsertByConfidence(rs[Len(rs)], SortByConfidence(SubSeq(rs, 1, Len(rs) - 1)))

\* _process_with_llm: without the LLM the basic results; with it, every
\* result with the confidence of its analysis, deduplicated and sorted
ProcessWithLlm(results, llm) ==
    IF ~llm \/ results = <<>> THEN CreateBasicResultList(results)
    ELSE LET all_processed_results ==
                 [ i \in 1..Len(results) |->
                     [url |-> results[i].url, snippet |-> results[i].snippet,
                      full_content |-> results[i].full_content,
                      confidence |-> results[i].score] ]
             processed_results == Deduplicate(all_processed_results, {})
         IN IF processed_results = <<>> THEN CreateBasicResultList(results)
            ELSE SortByConfidence(processed_results)

\* _store_in_rag: the results whose content goes to the vector store
StoreInRag(results) == SelectSeq([ i \in 1..Len(results) |-> results[i] ],
                                 LAMBDA r : r.full_content # NoText)

NotFound == [done |-> FALSE, attempts |-> 0, waits |-> <<>>, results |-> <<>>, stored |-> <<>>]

SearchAtRest ==
    /\ serper_api_key = TRUE
    /\ http = [head |-> <<>>, tail |-> "ok"]
    /\ serp = <<>>
    /\ llm_on = TRUE
    /\ searched = NotFound

InitSearch ==
    /\ serper_api_key \in BOOLEAN
    /\ http \in HttpScripts
    /\ serp \in ItemSeqs(MaxResults)
    /\ llm_on \in BOOLEAN
    /\ searched = NotFound

\* WebSearchTool.search(query)
Search ==
    /\ ~searched.done
    /\ LET s == SearchWithSerper(serper_api_key, http, serp, 1)
           enriched_results == EnrichWithFirecrawl(s.results)
           p == ProcessWithLlm(enriched_results, llm_on)
           processed_results == IF p = <<>> THEN CreateBasicResultList(enriched_results) ELSE p
       IN searched' = IF s.results = <<>>
                   THEN [NotFound EXCEPT !.done = TRUE, !.attempts = s.attempts, !.waits = s.waits]
                   ELSE [done |-> TRUE, attempts |-> s.attempts, waits |-> s.waits,
                         results |-> processed_results,
                         stored |-> StoreInRag(processed_results)]
    /\ UNCHANGED <<serper_api_key, http, serp, llm_on, exceptSearch>>

NextSearch == Search

(***************************************************************************)
(* Part VII.  The conflict detector (tools/conflict_detector.py).          *)
(* detect_conflicts is a pure function of the chunks it is given.          *)
(***************************************************************************)
\* The topics of conflict_keywords that the model follows, in their order.
\* (For products and market _extract_value returns None: they never enter
\* topic_data.)
TopicList == <<"revenue", "headcount", "founded">>

\* What a sentence of a chunk says that a topic's keywords and patterns find
\* (plain: the number is written without thousands separators, "1000
\* employees" and not "1,000 employees")
Mentions == { [topic |-> "revenue", value |-> v, plain |-> FALSE] : v \in {100, 105, 250} }
            \cup { [topic |-> "headcount", value |-> n, plain |-> FALSE] : n \in {1000, 1100, 1200} }
            \cup { [topic |-> "headcount", value |-> 1000, plain |-> TRUE] }
            \cup { [topic |-> "founded", value |-> y, plain |-> FALSE] : y \in {1999, 2001, 2005} }
\* The texts of the chunks: nothing on any topic, one mention, or a founding
\* year with a revenue (in both orders)
Texts == { <<>> } \cup { <<m>> : m \in Mentions }
         \cup { << [topic |-> "revenue", value |-> 100, plain |-> FALSE],
                   [topic |-> "founded", value |-> 2005, plain |-> FALSE] >>,
                << [topic |-> "founded", value |-> 1999, plain |-> FALSE],
                   [topic |-> "revenue", value |-> 250, plain |-> FALSE] >> }

\* The identification a chunk carries: metadata.source_file, and the
\* source / metadata.url of the chunk
Origins == { [source_file |-> "", url |-> ""],
             [source_file |-> "a.pdf", url |-> ""],
             [source_file |-> "b.pdf", url |-> ""],
             [source_file |-> "", url |-> "acme.com/about"] }

Chunks == { [source_file |-> o.source_file, url |-> o.url, text |-> t] :
               o \in Origins, t \in Texts }

RECURSIVE ChunkSeqs(_)
ChunkSeqs(n) ==
    IF n = 0 THEN { <<>> }
    ELSE LET shorter == ChunkSeqs(n - 1)
         IN shorter \cup { Append(h, c) : h \in { y \in shorter : Len(y) = n - 1 }, c \in Chunks }

\* f"source_{i}" for the i-th chunk, counted from 0
SyntheticId(i) == CASE i = 0 -> "source_0" [] i = 1 -> "source_1"
                    [] i = 2 -> "source_2" [] OTHER -> "source_3"

\* doc_id = source_file if source_file else source_url if source_url else f"source_{i}"
DocIdByPosition(srcs, i) == SyntheticId(i - 1)
DocId(srcs, i) ==
    IF srcs[i].source_file # "" THEN srcs[i].source_file
    ELSE IF srcs[i].url # "" THEN srcs[i].url
    ELSE SyntheticId(i - 1)

\* the keys of sources_by_document, in the order of their insertion
RECURSIVE DocOrder(_, _)
DocOrder(srcs, n) ==
    IF n = 0 THEN <<>>
    ELSE LET before == DocOrder(srcs, n - 1)
             id == DocId(srcs, n)
         IN IF \E k \in 1..Len(before) : before[k] = id THEN before ELSE Append(before, id)

\* What the topic's pattern captures of a mention.  The headcount pattern
\* (\d{1,3}(?:,\d{3})*)\s+employees? takes at most three digits before the
\* first comma: of "1000 employees" it captures "000".
Captured(m) ==
    IF m.topic = "headcount" /\ m.plain THEN m.value % 1000 ELSE m.value

\* the values the patterns find in a text for the topic, in the order of the
\* text
TextValues(text, topic) ==
    LET of_topic == SelectSeq(text, LAMBDA m : m.topic = topic)
    IN [ k \in 1..Len(of_topic) |-> Captured(of_topic[k]) ]

\* the values the combined text of the document mentions for the topic, in
\* the order of the text
RECURSIVE DocValues(_, _, _, _)
DocValues(srcs, n, doc, topic) ==
    IF n = 0 THEN <<>>
    ELSE LET before == DocValues(srcs, n - 1, doc, topic)
         IN IF DocId(srcs, n) = doc
            THEN before \o TextValues(srcs[n].text, topic) ELSE before

SetMin(S) == CHOOSE x \in S : \A y \in S : x <= y
SetMax(S) == CHOOSE x \in S : \A y \in S : x >= y
Range(f) == { f[i] : i \in DOMAIN f }

\* _extract_value: None is -1.  revenue and headcount: the last match;
\* founded: the earliest year.
NoValue == -1
ExtractValue(vals, topic) ==
    IF vals = <<>> THEN NoValue
    ELSE CASE topic \in {"revenue", "headcount"} -> vals[Len(vals)]
           [] topic = "founded" -> SetMin(Range(vals))
           [] OTHER -> NoValue

\* topic_data[topic]: one entry for every document that yields a value
RECURSIVE TopicData(_, _, _, _)
TopicData(srcs, docs, n, topic) ==
    IF n = 0 THEN <<>>
    ELSE LET before == TopicData(srcs, docs, n - 1, topic)
             value == ExtractValue(DocValues(srcs, Len(srcs), docs[n], topic), topic)
         IN IF value # NoValue
            THEN Append(before, [value |-> value, document_id |-> docs[n]])
            ELSE before

\* _are_values_significantly_different: revenue by more than 10 percent,
\* headcount by more than 15 percent, founding years by more than 2
AreValuesSignificantlyDifferent(topic, values) ==
    CASE topic = "revenue" ->
            IF SetMin(values) > 0
            THEN (SetMax(values) - SetMin(values)) * 100 > RevenuePercent * SetMin(values)
            ELSE TRUE
      [] topic = "headcount" ->
            IF SetMin(values) > 0
            THEN (SetMax(values) - SetMin(values)) * 100 > HeadcountPercent * SetMin(values)
            ELSE TRUE
      [] topic = "founded" -> SetMax(values) - SetMin(values) > FoundedYears
      [] OTHER -> TRUE

\* the topics in the order in which topic_data got its keys: by the first
\* document that yields a value, then by conflict_keywords
RECURSIVE TopicOrder(_, _, _)
TopicOrder(srcs, docs, n) ==
    IF n = 0 THEN <<>>
    ELSE LET before == TopicOrder(srcs, docs, n - 1)
             new == SelectSeq(TopicList,
                      LAMBDA t : /\ ExtractValue(DocValues(srcs, Len(srcs), docs[n], t), t) # NoValue
                                 /\ \A k \in 1..Len(before) : before[k] # t)
         IN before \o new

\* the loop over topic_data that appends the conflicts
RECURSIVE ConflictsOf(_, _, _, _)
ConflictsOf(srcs, docs, topics, n) ==
    IF n = 0 THEN <<>>
    ELSE LET before == ConflictsOf(srcs, docs, topics, n - 1)
             topic == topics[n]
             values == TopicData(srcs, docs, Len(docs), topic)
             values_by_doc == { v.document_id : v \in Range(values) }
             all_unique_values == { v.value : v \in Range(values) }
         IN IF /\ Len(values) >= 2
               /\ Cardinality(values_by_doc) > 1
               /\ Cardinality(all_unique_values) > 1
               /\ AreValuesSignificantlyDifferent(topic, all_unique_values)
            THEN Append(before, [topic |-> topic, conflicting_values |-> all_unique_values,
                                 sources |-> values, severity |-> "high"])
            ELSE before

\* ConflictDetector.detect_conflicts(sources)
detect_conflicts(srcs) ==
    LET docs == DocOrder(srcs, Len(srcs))
    IN IF Len(docs) = 1 THEN <<>>
       ELSE ConflictsOf(srcs, docs, TopicOrder(srcs, docs, Len(docs)),
                        Len(TopicOrder(srcs, docs, Len(docs))))

NotDetected == [done |-> FALSE, conflicts |-> <<>>]

ConflictAtRest ==
    /\ sources = <<>>
    /\ detection = NotDetected

InitConflict ==
    /\ sources \in ChunkSeqs(MaxChunks)
    /\ detection = NotDetected

\* conflict_detector.detect_conflicts(research_data)
DetectConflictsCall ==
    /\ ~detection.done
    /\ detection' = [done |-> TRUE, conflicts |-> detect_conflicts(sources)]
    /\ UNCHANGED <<sources, exceptConflict>>

NextConflict == DetectConflictsCall

(***************************************************************************)
(* Part VIII.  The eviction of the cache (orchestrator/cache_manager.py).  *)
(* The cache is followed when it is nearly full; max_size is scaled down.  *)
(***************************************************************************)
CacheKeys == 1..(CacheMaxSize + 1)

\* the keys in the cache
Cached(store) == { k \in CacheKeys : store[k] # NotCached }

\* the n keys with the oldest created_at
RECURSIVE OldestKeys(_, _)
OldestKeys(store, n) ==
    IF n = 0 \/ Cached(store) = {} THEN {}
    ELSE LET k == CHOOSE x \in Cached(store) : \A y \in Cached(store) : store[x] <= store[y]
         IN {k} \cup OldestKeys([store EXCEPT ![k] = NotCached], n - 1)

\* _evict_oldest: removes max(1, len // 10) entries, the oldest first
EvictOldest(store) ==
    IF Cached(store) = {} THEN store
    ELSE LET size == Cardinality(Cached(store))
             num_to_remove == IF size \div EvictDivisor >= 1 THEN size \div EvictDivisor ELSE 1
             gone == OldestKeys(store, num_to_remove)
         IN [ k \in CacheKeys |-> IF k \in gone THEN NotCached ELSE store[k] ]

\* CacheManager.set: created_at of the entries after the set at time t
CacheSet(store, key, t) ==
    LET kept == IF Cardinality(Cached(store)) >= CacheMaxSize THEN EvictOldest(store) ELSE store
    IN [kept EXCEPT ![key] = t]

NoSet == [key |-> 0, before |-> [k \in CacheKeys |-> NotCached]]

CacheAtRest ==
    /\ entries = [k \in CacheKeys |-> NotCached]
    /\ clock = 1
    /\ sets = 0
    /\ last_set = NoSet

\* A cache that earlier sets have filled, or filled but for one entry: the
\* keys 1..size were set one after the other, the key `first` first.
InitCache ==
    /\ \E size \in {CacheMaxSize - 1, CacheMaxSize}, first \in 1..(CacheMaxSize - 1) :
          entries = [ k \in CacheKeys |->
                        IF k > size THEN NotCached
                        ELSE ((k + size - first) % size) + 1 ]
    /\ clock = CacheMaxSize + 1
    /\ sets = 0
    /\ last_set = NoSet

\* await cache_manager.set(key, value)
CacheSetCall(key) ==
    /\ sets < MaxSets
    /\ sets' = sets + 1
    /\ entries' = CacheSet(entries, key, clock)
    /\ clock' = clock + 1
    /\ last_set' = [key |-> key, before |-> entries]
    /\ UNCHANGED exceptCache

NextCache == \E key \in CacheKeys : CacheSetCall(key)

(***************************************************************************)
(* Part IX.  The plan endpoints (api/plans.py): update_section and         *)
(* regenerate_section read the stored plan, change one section of their    *)
(* copy and write the whole planJSON back; each await is a point where     *)
(* another request runs.                                                   *)
(***************************************************************************)
Handlers == 1..MaxHandlers

\* section keys, a nested one ("swot.strengths") included
SectionKeys == {"company_overview", "key_insights", "swot.strengths"}

SectionContents == {"draft", "edited", "generated"}

Idle == [pc |-> "idle", kind |-> "", section_key |-> "", content |-> "",
         plan_json |-> [k \in SectionKeys |-> ""], versions |-> 0]

NoSave == [section_key |-> "", content |-> "", by |-> 0,
           before |-> [k \in SectionKeys |-> ""]]

PlansAtRest ==
    /\ stored_plan = [k \in SectionKeys |-> ""]
    /\ plan_versions = 0
    /\ handlers = [h \in Handlers |-> Idle]
    /\ saves = 0
    /\ last_save = NoSave

\* a stored plan whose sections hold their first draft
InitPlans ==
    /\ stored_plan = [k \in SectionKeys |-> "draft"]
    /\ plan_versions = 0
    /\ handlers = [h \in Handlers |-> Idle]
    /\ saves = 0
    /\ last_save = NoSave

\* the copy of planJSON with the one section set
SetSection(plan_json, section_key, content) == [plan_json EXCEPT ![section_key] = content]

\* get_plan: the planJSON of the stored document
GetPlan == stored_plan

\* update_section up to its write: plan = await find_one(...)
UpdateSectionRead(h, section_key, content) ==
    /\ handlers[h].pc = "idle"
    /\ saves + Cardinality({ g \in Handlers : handlers[g].pc # "idle" }) < MaxSaves
    /\ handlers' = [handlers EXCEPT ![h] =
           [pc |-> "write", kind |-> "update", section_key |-> section_key,
            content |-> content,
            plan_json |-> SetSection(stored_plan, section_key, content),
            versions |-> plan_versions]]
    /\ UNCHANGED <<stored_plan, plan_versions, saves, last_save>>
    /\ UNCHANGED exceptPlans

\* update_section: await update_one({"$set": {"planJSON": plan_json, ...}})
UpdateSectionWrite(h) ==
    /\ handlers[h].pc = "write"
    /\ handlers[h].kind = "update"
    /\ stored_plan' = handlers[h].plan_json
    /\ saves' = saves + 1
    /\ last_save' = [section_key |-> handlers[h].section_key,
                     content |-> handlers[h].content, by |-> h,
                     before |-> stored_plan]
    /\ handlers' = [handlers EXCEPT ![h] = Idle]
    /\ UNCHANGED plan_versions
    /\ UNCHANGED exceptPlans

\* regenerate_section up to gemini.generate: plan = await find_one(...)
RegenerateSectionRead(h, section_key) ==
    /\ handlers[h].pc = "idle"
    /\ saves + Cardinality({ g \in Handlers : handlers[g].pc # "idle" }) < MaxSaves
    /\ handlers' = [handlers EXCEPT ![h] =
           [pc |-> "generate", kind |-> "regenerate", section_key |-> section_key,
            content |-> "", plan_json |-> stored_plan, versions |-> plan_versions]]
    /\ UNCHANGED <<stored_plan, plan_versions, saves, last_save>>
    /\ UNCHANGED exceptPlans

\* regenerate_section: gemini.generate raised or gave nothing, HTTP 500
RegenerateSectionFails(h) ==
    /\ handlers[h].pc = "generate"
    /\ handlers' = [handlers EXCEPT ![h] = Idle]
    /\ UNCHANGED <<stored_plan, plan_versions, saves, last_save>>
    /\ UNCHANGED exceptPlans

\* regenerate_section: the content is generated and the whole planJSON and
\* the versions of the copy read are written back
RegenerateSectionWrite(h) ==
    /\ handlers[h].pc = "generate"
    /\ stored_plan' = SetSection(handlers[h].plan_json, handlers[h].section_key, "generated")
    /\ plan_versions' = handlers[h].versions + 1
    /\ saves' = saves + 1
    /\ last_save' = [section_key |-> handlers[h].section_key,
                     content |-> "generated", by |-> h, before |-> stored_plan]
    /\ handlers' = [handlers EXCEPT ![h] = Idle]
    /\ UNCHANGED exceptPlans

NextPlans ==
    \/ \E h \in Handlers, k \in SectionKeys, c \in SectionContents : UpdateSectionRead(h, k, c)
    \/ \E h \in Handlers : UpdateSectionWrite(h)
    \/ \E h \in Handlers, k \in SectionKeys : RegenerateSectionRead(h, k)
    \/ \E h \in Handlers : RegenerateSectionFails(h)
    \/ \E h \in Handlers : RegenerateSectionWrite(h)

(***************************************************************************)
(* Specifications.  Each one runs one part; the other parts stay at rest.  *)
(***************************************************************************)
LibAtRest == UpdateAtRest /\ LlmAtRest /\ SearchAtRest /\ ConflictAtRest /\ CacheAtRest /\ PlansAtRest

InitSpecRouter == InitRouter /\ AgentAtRest /\ BreakerAtRest /\ LibAtRest
SpecRouter == InitSpecRouter /\ [][NextRouter]_vars

InitSpecAgent == InitAgent /\ InitRouter /\ BreakerAtRest /\ LibAtRest
SpecAgent == InitSpecAgent /\ [][NextAgent]_vars

InitSpecBreaker == BreakerAtRest /\ InitRouter /\ AgentAtRest /\ LibAtRest
SpecBreaker == InitSpecBreaker /\ [][NextBreaker]_vars

InitSpecUpdate == InitUpdate /\ InitRouter /\ AgentAtRest /\ BreakerAtRest /\ LlmAtRest /\ SearchAtRest /\ ConflictAtRest /\ CacheAtRest /\ PlansAtRest
SpecUpdate == InitSpecUpdate /\ [][NextUpdate]_vars

InitSpecLlm == InitLlm /\ InitRouter /\ AgentAtRest /\ BreakerAtRest /\ UpdateAtRest /\ SearchAtRest /\ ConflictAtRest /\ CacheAtRest /\ PlansAtRest
SpecLlm == InitSpecLlm /\ [][NextLlm]_vars

InitSpecSearch == InitSearch /\ InitRouter /\ AgentAtRest /\ BreakerAtRest /\ UpdateAtRest /\ LlmAtRest /\ ConflictAtRest /\ CacheAtRest /\ PlansAtRest
SpecSearch == InitSpecSearch /\ [][NextSearch]_vars

InitSpecConflict == InitConflict /\ InitRouter /\ AgentAtRest /\ BreakerAtRest /\ UpdateAtRest /\ LlmAtRest /\ SearchAtRest /\ CacheAtRest /\ PlansAtRest
SpecConflict == InitSpecConflict /\ [][NextConflict]_vars

InitSpecCache == InitCache /\ InitRouter /\ AgentAtRest /\ BreakerAtRest /\ UpdateAtRest /\ LlmAtRest /\ SearchAtRest /\ ConflictAtRest /\ PlansAtRest
SpecCache == InitSpecCache /\ [][NextCache]_vars

InitSpecPlans == InitPlans /\ InitRouter /\ AgentAtRest /\ BreakerAtRest /\ UpdateAtRest /\ LlmAtRest /\ SearchAtRest /\ ConflictAtRest /\ CacheAtRest
SpecPlans == InitSpecPlans /\ [][NextPlans]_vars

(***************************************************************************)
(* Properties of the agent.                                                *)
(***************************************************************************)
\* The records of the turns that have at least started
TurnRecords == {last_turn} \cup { turn[t] : t \in Turns }
StartedRecords == { r \in TurnRecords : r.intent # "none" }

AllPlans == { o.plan : o \in AccountPlanOutcomes(FALSE) }

\* turn t returns in this step
TurnReturns(t) == turn[t].pc # "done" /\ turn'[t].pc = "done"

\* C3: a research workflow that has determined a company and does not stop
\* on a conflict question ends, whatever the searches, the scraping and the
\* LLM did, by storing an AccountPlan in the session and returning it; it
\* never returns an error instead.
C3_ResearchEndsWithStoredPlan ==
    [][ \A t \in Turns :
          ( /\ TurnReturns(t)
            /\ last_turn'.wf = "research"
            /\ last_turn'.company # "none"
            /\ last_turn'.ret # "conflict_question" )
          => /\ last_turn'.ret = "plan"
             /\ last_turn'.stored
             /\ account_plan' # NoPlan
             /\ account_plan' \in AllPlans ]_vars

\* A research turn whose searches returned nothing and whose plan
\* generation timed out or failed has returned a plan.
C3_Witness ==
    /\ last_turn.pc = "done" /\ last_turn.wf = "research"
    /\ last_turn.ret = "plan"
    /\ last_turn.outcome \in {"empty", "fallback", "ultimate"}
    /\ last_turn.data_empty

\* C5: the turns of one session are serialized: while one turn is in flight
\* (suspended in plan generation) no later turn of the session has begun.
C5_TurnsSerialized ==
    \A t1 \in Turns, t2 \in Turns :
        (t1 < t2 /\ turn[t1].pc = "generating") => turn[t2].pc = "idle"

\* A later turn has run to its end while an earlier one is still suspended.
C5_Witness ==
    \E t1 \in Turns, t2 \in Turns :
        t1 < t2 /\ turn[t1].pc = "generating" /\ turn[t2].pc = "done"

\* C6: agent_state is awaiting_conflict_decision from the turn that posed
\* the conflict question until the reply has been processed, and idle or
\* processing at all other times.
C6_AgentStateRecordsSuspension ==
    /\ conflict_pending => agent_state = "awaiting_conflict_decision"
    /\ ~conflict_pending => agent_state \in {"idle", "processing"}

\* A conflict question has been posed and is waiting for the reply.
C6_Witness == conflict_pending /\ last_turn.ret = "conflict_question"

\* C7: a clarify turn uses only the stored research_data: it retrieves
\* nothing, detects no conflicts, and ends with a plan stored.
C7_ClarifyUsesStoredDataOnly ==
    (last_turn.pc = "done" /\ last_turn.intent = "clarify")
    => /\ ~last_turn.retrieved
       /\ ~last_turn.detected
       /\ last_turn.ret = "plan" /\ last_turn.stored

\* A clarify turn has returned.
C7_Witness == last_turn.pc = "done" /\ last_turn.intent = "clarify"

UpdateCues == AddPatterns \cup RemovePatterns \cup EditPatterns \cup UpdateWords
ResearchCues == ResearchWords \cup FollowupResearchWords \cup PlanPhrases \cup UploadWords

\* C8: a message is classified clarify only when the prior turn posed a
\* conflict question; with no conflict question outstanding, a message with
\* neither update cues nor research cues is classified general.
C8_ClarifyOnlyAfterConflictQuestion ==
    \A r \in StartedRecords :
        /\ r.intent = "clarify" => r.conflict_at_start
        /\ ( ~r.conflict_at_start /\ ~Hit(UpdateCues, r.text) /\ ~Hit(ResearchCues, r.text) )
           => r.intent = "general"

\* A message without update or research cues was classified while no
\* conflict question was outstanding.
C8_Witness ==
    \E r \in StartedRecords :
        ~r.conflict_at_start /\ ~Hit(UpdateCues, r.text) /\ ~Hit(ResearchCues, r.text)

\* The turn ran _gather_data and left the session with another company
\* than it had before the turn
DeterminedNewCompany(r) ==
    /\ r.retrieved
    /\ r.prev_company # "none"
    /\ Lower(r.determined) # Lower(r.prev_company)

\* C9: when a research turn determines a company other than the session's
\* previous one, the research_data it leaves holds no chunk gathered for
\* the previous company.
C9_NewCompanyClearsResearchData ==
    \A r \in StartedRecords : DeterminedNewCompany(r) => ~r.stale

\* A research turn has changed the session's company.
C9_Witness == \E r \in StartedRecords : DeterminedNewCompany(r)

C4_EnrichmentStaysDisabled == ~llm_after_trip

\* The breaker has tripped and a search has run afterwards.
C4_Witness == tripped /\ llm_after_trip

(***************************************************************************)
(* Properties of the update commands.                                      *)
(***************************************************************************)
\* The operation a clause asks for
ClauseOperation(cmd) ==
    CASE cmd = "add ceo field"              -> <<"add", "ceo">>
      [] cmd = "remove market summary"      -> <<"remove", "market_summary">>
      [] cmd = "update opportunities"       -> <<"update", "opportunities">>
      [] cmd = "add field notes"            -> <<"add", "notes">>
      [] cmd = "remove field notes"         -> <<"remove", "notes">>
      [] cmd = "add field revenue forecast" -> <<"add", "revenue_forecast">>

ExampleCommands == <<"add ceo field", "remove market summary", "update opportunities">>

\* C11: a message of several commands is executed as one operation per
\* clause, each once and in the order of the clauses; for "add CEO field
\* and remove market summary and update opportunities" the operations are
\* add, remove, update in that order and the saved plan has a ceo key, no
\* market_summary key and the regenerated opportunities text.
C11_OneOperationPerClauseInOrder ==
    upc = "done" =>
        /\ operations = [i \in 1..Len(commands) |-> ClauseOperation(commands[i])]
        /\ commands = ExampleCommands =>
              /\ "ceo" \in DOMAIN plan_after
              /\ "market_summary" \notin DOMAIN plan_after

\* The example message has been executed: three operations in clause order.
C11_Witness ==
    /\ upc = "done"
    /\ commands = ExampleCommands
    /\ operations = <<<<"add", "ceo">>, <<"remove", "market_summary">>, <<"update", "opportunities">>>>
    /\ "ceo" \in DOMAIN plan_after
    /\ "market_summary" \notin DOMAIN plan_after
    /\ plan_after["opportunities"] = "regen"

(***************************************************************************)
(* Properties of the section update (continued).                           *)
(***************************************************************************)
\* The instant a last_updated text stands for: "ts" is the time the stored
\* plan was generated, which is before the update turn; any text written
\* during the update turn stands for a later instant.
Instant(stamp) == IF stamp = "ts" THEN 0 ELSE 1

\* The latest update turn regenerated its section without an error
UpdateSucceeded ==
    /\ last_update.done
    /\ \A p \in SectionPaths(last_update.section) :
          p \in DOMAIN last_update.after /\ last_update.after[p] \in {"gen", "regen"}

\* C12: after a section-update turn that completed successfully the plan's
\* last_updated is strictly later than it was before the turn.
C12_UpdateAdvancesLastUpdated ==
    UpdateSucceeded =>
        /\ "last_updated" \in DOMAIN last_update.after
        /\ "last_updated" \in DOMAIN last_update.before =>
              Instant(last_update.after["last_updated"])
                  > Instant(last_update.before["last_updated"])

\* A section of a plan carrying last_updated has been regenerated.
C12_Witness ==
    /\ UpdateSucceeded
    /\ "last_updated" \in DOMAIN last_update.before
    /\ last_update.after # last_update.before

(***************************************************************************)
(* Properties of the LLM calls.                                            *)
(***************************************************************************)
\* the answers the run has received
Seen(k) == k \in 1..run.calls
AllSeen(kinds) == \A k \in 1..run.calls : Outcome(script, k) \in kinds

\* generate_account_plan has produced a section whose first LLM call came
\* back empty with MAX_TOKENS
MaxTokensFirst == run.entry = "safe_generate" /\ Outcome(script, 1) = "max_tokens_empty"

\* C13: when the LLM returns MAX_TOKENS with an empty body for a section,
\* the generator makes exactly one retry with a reduced context and, if
\* that is empty too, uses the section's fallback text; the value of a
\* required text section is never the empty string.
C13_OneShrinkRetryThenFallback ==
    /\ MaxTokensFirst =>
          /\ run.shrunk = 1
          /\ Outcome(script, 2) = "max_tokens_empty" => (run.calls = 2 /\ run.value = "fallback")
    /\ run.entry = "safe_generate" => run.value \in {"text", "fallback"}

\* company_overview: empty MAX_TOKENS answer twice, fallback text after one
\* retry with the reduced context.
C13_Witness ==
    /\ MaxTokensFirst
    /\ run.section = "company_overview"
    /\ Outcome(script, 2) = "max_tokens_empty"
    /\ run.shrunk = 1 /\ run.calls = 2 /\ run.value = "fallback"

\* C14: on rate-limit errors generate retries up to 3 times, waiting 2s, 4s
\* and 8s before the successive retries (four attempts in all), and raises
\* only after the third retry has failed too.
C14_RateLimitThreeRetries ==
    (run.entry = "generate" /\ AllSeen({"rate_limit", "ok"})) =>
        /\ run.calls <= 4
        /\ run.waits = SubSeq(<<2, 4, 8>>, 1, run.calls - 1)
        /\ run.raised => run.calls = 4

\* generate has given up on an API that answers 429 every time.
C14_Witness ==
    /\ run.entry = "generate" /\ run.raised
    /\ AllSeen({"rate_limit"})
    /\ Len(run.waits) >= 2

\* C15: on LLM timeouts the generation of a section retries at most 2
\* times, waiting 2s then 4s: a section whose every LLM call times out
\* costs at most three LLM calls before it falls back.
C15_TimeoutAtMostThreeCalls ==
    (run.entry = "safe_generate" /\ AllSeen({"timeout"})) =>
        /\ run.calls <= 3
        /\ run.waits = SubSeq(<<2, 4>>, 1, run.calls - 1)
        /\ run.value = "fallback"

\* products_services has fallen back after nothing but timeouts.
C15_Witness ==
    /\ run.entry = "safe_generate" /\ run.section = "products_services"
    /\ run.calls >= 1 /\ AllSeen({"timeout"})
    /\ run.value = "fallback"

Blocked(k) == Seen(k) /\ Outcome(script, k) \in {"safety", "recitation"}

\* C16: when the LLM rejects a request for safety (SAFETY or RECITATION),
\* the call raises at once and the request is not retried, the section gets
\* its fallback text, and no error text becomes the section's content.
C16_SafetyRejectionNotRetried ==
    \A k \in 1..run.calls :
        Blocked(k) =>
            /\ k = run.calls
            /\ run.entry = "generate" => run.raised
            /\ run.entry # "generate" => (~run.raised /\ run.value = "fallback")

\* A section generation has met a safety rejection.
C16_Witness ==
    /\ run.entry \in {"safe_generate", "section_with_retry", "regenerate_section"}
    /\ \E k \in 1..run.calls : Blocked(k)

(***************************************************************************)
(* Properties of the web search.                                           *)
(***************************************************************************)
\* every POST the search has made failed with a network error or a 5xx
SerpRequestsFailed ==
    /\ searched.done /\ serper_api_key
    /\ \A k \in 1..searched.attempts : Outcome(http, k) \in {"network_error", "http_5xx"}

\* C17: a SERP search that fails with a network error or a 5xx response is
\* retried up to 3 times with exponential backoff; only when the retries
\* are exhausted does the search return an empty SERP.
C17_SerpFailureRetried ==
    SerpRequestsFailed =>
        /\ searched.attempts > 1
        /\ searched.attempts \in {3, 4}
        /\ Len(searched.waits) = searched.attempts - 1
        /\ searched.results = <<>>

\* A search whose first request failed has returned an empty SERP.
C17_Witness ==
    /\ SerpRequestsFailed
    /\ searched.attempts >= 1
    /\ searched.results = <<>>

\* C19: the results of one search contain no two entries with the same URL
\* and no two entries whose content has the same first 200 characters,
\* with the LLM processing enabled or not.
C19_ResultsDeduplicated ==
    \A i \in 1..Len(searched.results), j \in 1..Len(searched.results) :
        i < j =>
            /\ searched.results[i].url # searched.results[j].url
            /\ searched.results[i].full_content.prefix # searched.results[j].full_content.prefix

\* A search has returned two results.
C19_Witness ==
    /\ searched.done
    /\ Len(searched.results) = 2
    /\ Len(serp) = 2

\* the plan has the key; swot is a dict of four lists
HasKey(plan, key) ==
    IF key = "swot" THEN SwotPaths \cap DOMAIN plan # {} ELSE key \in DOMAIN plan

\* C18: every AccountPlan the agent stores in the session or returns has
\* every key of the plan schema: the ten sections, financial_summary,
\* key_people, competitors, sources, final_account_plan and last_updated.
C18_PlanHasEveryKey ==
    LET AccountPlanKeys ==
            {"company_overview", "market_summary", "key_insights", "pain_points",
             "opportunities", "products_services", "competitor_analysis", "swot",
             "strategic_recommendations", "financial_summary", "key_people",
             "competitors", "sources", "final_account_plan", "last_updated"}
    IN account_plan # NoPlan => \A key \in AccountPlanKeys : HasKey(account_plan, key)

\* A research turn has stored and returned a plan.
C18_Witness ==
    /\ last_turn.pc = "done" /\ last_turn.wf = "research"
    /\ last_turn.ret = "plan" /\ last_turn.stored
    /\ account_plan # NoPlan

(***************************************************************************)
(* Properties of the conflict detector.                                    *)
(***************************************************************************)
\* chunks i and j of the input carry the same document: the same
\* source_file or, without one, the same URL
SameDocument(i, j) ==
    \/ i = j
    \/ sources[i].source_file # "" /\ sources[i].source_file = sources[j].source_file
    \/ /\ sources[i].source_file = "" /\ sources[j].source_file = ""
       /\ sources[i].url # "" /\ sources[i].url = sources[j].url

\* chunk i of the input states the value for the topic
Says(i, topic, value) ==
    \E k \in 1..Len(sources[i].text) :
        sources[i].text[k].topic = topic /\ sources[i].text[k].value = value
\* the topic's pattern finds the value in chunk i
Yields(i, topic, value) ==
    \E k \in 1..Len(sources[i].text) :
        sources[i].text[k].topic = topic /\ Captured(sources[i].text[k]) = value

\* C20: every conflict the detector returns has at least 2 distinct
\* conflicting values, and they come from at least 2 distinct documents;
\* the detector returns no conflict when all chunks are of one document.
C20_ConflictsAcrossDocuments ==
    detection.done =>
        /\ \A k \in 1..Len(detection.conflicts) :
              LET c == detection.conflicts[k]
              IN /\ Cardinality(c.conflicting_values) >= 2
                 /\ \E i \in 1..Len(sources), j \in 1..Len(sources) :
                       /\ ~SameDocument(i, j)
                       /\ \E v \in c.conflicting_values, w \in c.conflicting_values :
                             v # w /\ Yields(i, c.topic, v) /\ Yields(j, c.topic, w)
        /\ (\A i \in 1..Len(sources), j \in 1..Len(sources) : SameDocument(i, j))
              => detection.conflicts = <<>>

\* The detector has returned a conflict on chunks of which two are of the
\* same document.
C20_Witness ==
    /\ detection.done
    /\ detection.conflicts # <<>>
    /\ \E i \in 1..Len(sources), j \in 1..Len(sources) : i # j /\ SameDocument(i, j)

\* C21: a conflict on a numeric topic is produced only when the values of
\* the documents differ significantly: revenues by more than 10% of the
\* smaller, headcounts by more than 15% of the smaller, founding years by
\* more than 2; values within the threshold produce no conflict.
C21_OnlySignificantDifferences ==
    LET Beyond(topic, lo, hi) ==
            CASE topic = "revenue" -> (hi - lo) * 100 > 10 * lo
              [] topic = "headcount" -> (hi - lo) * 100 > 15 * lo
              [] topic = "founded" -> hi - lo > 2
              [] OTHER -> TRUE
        Said(topic) == { m.value : m \in { x \in Mentions : x.topic = topic /\
                                           \E i \in 1..Len(sources) : Says(i, topic, x.value) } }
    IN detection.done =>
        /\ \A k \in 1..Len(detection.conflicts) :
              LET c == detection.conflicts[k]
              IN Beyond(c.topic, SetMin(c.conflicting_values), SetMax(c.conflicting_values))
        /\ \A n \in 1..Len(TopicList) :
              (\A v \in Said(TopicList[n]), w \in Said(TopicList[n]) :
                    v <= w => ~Beyond(TopicList[n], v, w))
              => \A k \in 1..Len(detection.conflicts) :
                    detection.conflicts[k].topic # TopicList[n]

\* Two documents give revenues of 100 and 105 and the detector has returned
\* no conflict.
C21_Witness ==
    /\ detection.done
    /\ \E i \in 1..Len(sources), j \in 1..Len(sources) :
          ~SameDocument(i, j) /\ Says(i, "revenue", 100) /\ Says(j, "revenue", 105)
    /\ ~\E i \in 1..Len(sources) : Says(i, "revenue", 250)
    /\ detection.conflicts = <<>>

\* C22: the conflicts are returned in the order of the topic enumeration
\* (revenue, headcount, founded), whatever the order of the documents and
\* chunks in the input.
C22_ConflictsInTopicOrder ==
    LET TopicIndex(t) == CHOOSE n \in 1..Len(TopicList) : TopicList[n] = t
    IN \A k \in 1..Len(detection.conflicts), l \in 1..Len(detection.conflicts) :
          k < l => TopicIndex(detection.conflicts[k].topic) < TopicIndex(detection.conflicts[l].topic)

\* The detector has returned conflicts on two topics.
C22_Witness ==
    /\ detection.done
    /\ Len(detection.conflicts) >= 2

(***************************************************************************)
(* Further properties of the router.                                       *)
(***************************************************************************)
\* C28: after a job has been marked complete and its cached result has
\* expired, a new route call with the same query hash is not answered as a
\* duplicate of the completed job: it goes on to the cache and creates a
\* new Job.
C28_RouteAfterExpiryCreatesJob ==
    [][ \A c \in Calls :
          LET h == rcall'[c].hash
          IN ( /\ rcall[c].pc = "idle" /\ rcall'[c].pc # "idle"
               /\ h \in Hashes
               /\ last_done[h].done
               /\ cache[h].present /\ CacheExpired(cache[h]) )
             => /\ ~rcall'[c].ret.duplicate
                /\ rcall'[c].pc = "await_cache" ]_vars

\* A route call has returned that began after the completion of a job for
\* its hash and after the expiry of the cached result.
C28_Witness ==
    \E c \in Calls :
        /\ Returned(c)
        /\ rcall[c].seen.done
        /\ rcall[c].began > rcall[c].seen.at + SerpCacheTtlHours
        /\ cache[rcall[c].hash].present /\ CacheExpired(cache[rcall[c].hash])

(***************************************************************************)
(* Properties of the cache.                                                *)
(***************************************************************************)
\* what the last set removed from the cache
Evicted == Cached(last_set.before) \ Cached(entries)

\* C26: a set that makes the size of the cache exceed max_size evicts the
\* 10% of the entries with the oldest creation timestamps and no others; a
\* set that does not (the overwriting of an existing key included) evicts
\* nothing.
C26_EvictsOnlyOnOverflow ==
    last_set.key # 0 =>
        LET before == last_set.before
            size == Cardinality(Cached(before))
        IN IF last_set.key \notin Cached(before) /\ size + 1 > CacheMaxSize
           THEN /\ Cardinality(Evicted) = size \div 10
                /\ \A e \in Evicted, k \in Cached(before) \ Evicted : before[e] < before[k]
           ELSE Evicted = {}

\* A set of a new key on the full cache has evicted the oldest entry.
C26_Witness ==
    /\ last_set.key # 0
    /\ last_set.key \notin Cached(last_set.before)
    /\ Cardinality(Cached(last_set.before)) = CacheMaxSize
    /\ Cardinality(Evicted) = 1
(***************************************************************************)
(* Properties of the plan endpoints.                                       *)
(***************************************************************************)
\* C25: after a save that updates one section of the stored plan, get
\* returns that section as it was passed and every other section as it was
\* before the save, also when two updates of different sections overlap.
C25_SavePreservesOtherSections ==
    last_save.section_key # "" =>
        /\ GetPlan[last_save.section_key] = last_save.content
        /\ \A k \in SectionKeys \ {last_save.section_key} : GetPlan[k] = last_save.before[k]

\* Two saves of different sections were made, and the second one was read
\* before the first one was written.
C25_Witness ==
    /\ saves = 2
    /\ \E k \in SectionKeys \ {last_save.section_key} :
          /\ last_save.before[k] # "draft"
          /\ GetPlan[k] = "draft"
(***************************************************************************)
(* Properties of the company and the documents of a research turn.         *)
(***************************************************************************)
\* the research turn rec has gathered its data for the company its own
\* message names
NamesCompany(rec) ==
    rec.wf = "research" /\ rec.retrieved /\ RegexCompany(rec.text) # "none"

\* C23: when the message of a research turn names a company, that company
\* is the one the turn uses and stores in the session, whatever company the
\* uploaded documents name.
C23_MessageCompanyWins ==
    \A rec \in {last_turn} \cup { turn[t] : t \in Turns } :
        NamesCompany(rec) =>
            /\ rec.company = RegexCompany(rec.text)
            /\ rec.determined = RegexCompany(rec.text)

\* A research turn for the company its message names is over while the
\* uploaded document is about another company.
C23_Witness ==
    /\ NamesCompany(last_turn)
    /\ last_turn.ret = "plan"
    /\ DocCompany(vector_store) # "none"
    /\ DocCompany(vector_store) # RegexCompany(last_turn.text)
    /\ last_turn.determined = RegexCompany(last_turn.text)

\* the uploaded documents of the user of the session
OwnDocuments == OwnedBy(vector_store, SessionUser)

\* the company of the research turn rec comes from an uploaded document
CompanyFromDocuments(rec) ==
    /\ rec.wf = "research" /\ rec.retrieved
    /\ rec.determined \notin {RegexCompany(rec.text), rec.prev_company}

\* C24: no chunk of another user's document is put into the research data
\* of the session, and none determines the company of a research turn.
C24_OnlyOwnDocuments ==
    /\ \A i \in 1..Len(research_data) :
          research_data[i].src = "uploaded" =>
              \E j \in 1..Len(OwnDocuments) : OwnDocuments[j].id = research_data[i].id
    /\ \A rec \in {last_turn} \cup { turn[t] : t \in Turns } :
          CompanyFromDocuments(rec) =>
              \E j \in 1..Len(OwnDocuments) : OwnDocuments[j].company = rec.determined

\* A research turn is over in a session whose vector store holds only a
\* document of another user: no chunk of it is in the research data.
C24_Witness ==
    /\ vector_store # <<>>
    /\ OwnDocuments = <<>>
    /\ last_turn.wf = "research" /\ last_turn.retrieved
    /\ research_data # <<>>
    /\ \A i \in 1..Len(research_data) : research_data[i].src = "web"
(***************************************************************************)
(* Properties of the reply to a conflict question.                         *)
(***************************************************************************)
\* C27: a turn that answers a conflict question with one of the replies
\* the question offers resumes the research for the company of the
\* session: it ends with an account plan stored, and the company of the
\* session is the one it was.
C27_OfferedReplyResumesResearch ==
    (last_turn.pc = "done" /\ last_turn.conflict_at_start
                           /\ last_turn.text \in OfferedReplies) =>
        /\ last_turn.ret = "plan"
        /\ last_turn.stored
        /\ last_turn.company = last_turn.prev_company
        /\ last_turn.retrieved => last_turn.determined = last_turn.prev_company

\* The reply "continue" to a conflict question has ended with a plan for
\* the company of the session.
C27_Witness ==
    /\ last_turn.pc = "done"
    /\ last_turn.conflict_at_start
    /\ last_turn.text = "continue"
    /\ last_turn.ret = "plan"
    /\ last_turn.stored
    /\ last_turn.company = last_turn.prev_company
(***************************************************************************)
(* Properties of the research data of the session.                         *)
(***************************************************************************)
\* C29: the research data of the session holds every gathered chunk at
\* most once, also after the same company has been researched again.
C29_ResearchDataHasNoDuplicates ==
    \A i, j \in 1..Len(research_data) :
        i # j => research_data[i] # research_data[j]

\* A company that had research data has been researched again, and chunks
\* were gathered again.
C29_Witness ==
    /\ last_turn.wf = "research"
    /\ last_turn.retrieved
    /\ last_turn.data_at_start
    /\ last_turn.company = last_turn.prev_company
    /\ last_turn.determined = last_turn.prev_company
    /\ ~last_turn.data_empty
(***************************************************************************)
(* Properties of a failed regeneration.                                    *)
(***************************************************************************)
\* C30: when the regeneration of a section fails during an update turn,
\* the plan of the session keeps the content the section had, and no error
\* text is stored as content of the section.
C30_FailedRegenerationKeepsSection ==
    (last_update.done /\ last_update.failed) =>
        /\ last_update.after = last_update.before
        /\ \A p \in SectionPaths(last_update.section) \cap DOMAIN last_update.after :
              last_update.after[p] # "Error regenerating"

\* An update turn whose regeneration failed is over, on a plan that held
\* generated content in the section.
C30_Witness ==
    /\ last_update.done
    /\ last_update.failed
    /\ \A p \in SectionPaths(last_update.section) :
          p \in DOMAIN last_update.before /\ last_update.before[p] = "gen"
    /\ last_turn.wf = "update"

=============================================================================
